---- MODULE Spec2Model ----
(***************************************************************************)
(* Model of runninghub_cli/duck_utils.py: the decoder that recovers a file *)
(* hidden in the low bits of a carrier image.                              *)
(*                                                                         *)
(* Conventions.  A byte is a number in 0..255, a byte string is a sequence *)
(* of bytes, a Python str is a sequence of code points.  An image array is *)
(* a sequence of rows, a row a sequence of pixels, a pixel a sequence of   *)
(* DUCK_CHANNELS bytes (numpy shape (h, w, c)).  An exception is a record  *)
(* [type, msg]; msg is a sequence of parts, [lit |-> "text"] for literal   *)
(* text of the source and [str |-> s] for an interpolated Python str.  The *)
(* source's messages are bilingual; only their ASCII half is kept, the     *)
(* other half is written "[zh]".                                           *)
(***************************************************************************)
EXTENDS Integers, Sequences, FiniteSets, TLC

(***************************************************************************)
(* Program constants.                                                      *)
(***************************************************************************)
\* WATERMARK_SKIP_W_RATIO = 0.40 and WATERMARK_SKIP_H_RATIO = 0.08, in percent
WATERMARK_SKIP_W_RATIO == 40
WATERMARK_SKIP_H_RATIO == 8
DUCK_CHANNELS == 3
\* the 32-bit length prefix of the bit stream
LEN_PREFIX_BITS == 32
\* sizes of the password hash and of the salt in the header
PWD_HASH_LEN == 32
SALT_LEN == 16
\* size of the big-endian data length field
DATA_LEN_BYTES == 4
\* (variant: the last two depths swapped)
DepthsSwapped == <<2, 8, 6>>
\* the depths tried by extract_with_fallback, in order
Depths == <<2, 6, 8>>

(***************************************************************************)
(* Bytes, bits and strings.                                                *)
(***************************************************************************)
Pow2(n) == 2 ^ n

Min(a, b) == IF a < b THEN a ELSE b

\* Every length of the model is far below this; Python integers are unbounded
\* and TLC's are 32 bit wide, so a decoded u32 at or above this value is kept
\* as this value: it still compares as greater than every length.
U32Cap == Pow2(24)

\* struct.unpack(">I", b)[0] for a 4-byte string b
UnpackU32BE(b) ==
    IF b[1] # 0 THEN U32Cap
    ELSE b[2] * 65536 + b[3] * 256 + b[4]

\* np.unpackbits(v, bitorder="big") of one uint8: 8 bits, most significant first
UnpackBits8(v) == [i \in 1..8 |-> (v \div Pow2(8 - i)) % 2]

\* np.packbits(bits, bitorder="big").tobytes(); a last partial group is padded
\* with zero bits
PackBits(bits) ==
    LET n == (Len(bits) + 7) \div 8
        bit(i) == IF i <= Len(bits) THEN bits[i] ELSE 0
    IN  [j \in 1..n |->
            bit(8*j - 7) * 128 + bit(8*j - 6) * 64 + bit(8*j - 5) * 32
          + bit(8*j - 4) * 16 + bit(8*j - 3) * 8 + bit(8*j - 2) * 4
          + bit(8*j - 1) * 2 + bit(8*j)]

\* a[i:j] of Python for 0 <= i, clipped to the sequence (0-based, j exclusive)
Slice(s, i, j) ==
    LET hi == Min(j, Len(s))
    IN  IF i >= hi THEN <<>> ELSE SubSeq(s, i + 1, hi)

\* one lower-case hexadecimal digit, as a code point
HexDigit(d) == IF d < 10 THEN 48 + d ELSE 87 + d

\* bytes.hex(): two lower-case hexadecimal digits per byte
Hex(b) ==
    [n \in 1..(2 * Len(b)) |->
        IF n % 2 = 1 THEN HexDigit(b[(n + 1) \div 2] \div 16)
        ELSE HexDigit(b[n \div 2] % 16)]

\* str(n) for n >= 0: the decimal digits, as code points
RECURSIVE DecimalStr(_)
DecimalStr(n) ==
    IF n < 10 THEN <<48 + n>>
    ELSE DecimalStr(n \div 10) \o <<48 + (n % 10)>>

\* str.encode("utf-8") for code points below 0x800 (one and two byte forms)
\* (the string is encoded half by half to keep the evaluation shallow)
RECURSIVE Utf8Encode(_)
Utf8Encode(s) ==
    IF Len(s) = 0 THEN <<>>
    ELSE IF Len(s) = 1
    THEN IF s[1] < 128 THEN <<s[1]>>
         ELSE <<192 + (s[1] \div 64), 128 + (s[1] % 64)>>
    ELSE Utf8Encode(SubSeq(s, 1, Len(s) \div 2))
         \o Utf8Encode(SubSeq(s, (Len(s) \div 2) + 1, Len(s)))

\* bytes.decode("utf-8", errors="ignore") for the byte strings of the model:
\* ASCII bytes, well-formed two-byte sequences (lead 0xC2..0xDF), and bytes
\* that start no sequence (0x80..0xC1, 0xF5..0xFF, or a two-byte lead not
\* followed by a continuation byte), which are dropped one at a time.
RECURSIVE Utf8DecodeIgnore(_)
Utf8DecodeIgnore(b) ==
    IF b = <<>> THEN <<>>
    ELSE LET c == Head(b)
         IN  IF c < 128 THEN <<c>> \o Utf8DecodeIgnore(Tail(b))
             ELSE IF /\ c >= 194 /\ c <= 223 /\ Len(b) >= 2
                     /\ b[2] >= 128 /\ b[2] <= 191
                  THEN <<(c - 192) * 64 + (b[2] - 128)>>
                       \o Utf8DecodeIgnore(Tail(Tail(b)))
                  ELSE Utf8DecodeIgnore(Tail(b))

(***************************************************************************)
(* hashlib.sha256.  SHA-256 itself is library code; the model keeps what   *)
(* the decoder relies on: a deterministic function from byte strings to    *)
(* PWD_HASH_LEN-byte digests that depends on every input byte and on its   *)
(* position.                                                               *)
(***************************************************************************)
\* the sum over positions lo..hi of m of a weight of the byte and its position
RECURSIVE DigestSum(_, _, _)
DigestSum(m, lo, hi) ==
    IF lo > hi THEN 0
    ELSE IF lo = hi THEN ((m[lo] + 1) * (lo * lo + 3 * lo + 7)) % 65521
    ELSE LET mid == (lo + hi) \div 2
         IN  (DigestSum(m, lo, mid) + DigestSum(m, mid + 1, hi)) % 65521

Sha256(m) ==
    LET a == (DigestSum(m, 1, Len(m)) + 7 * Len(m)) % 65521
    IN  [j \in 1..PWD_HASH_LEN |-> ((a + 1) * (2 * j + 1) + (a \div 256)) % 256]

(***************************************************************************)
(* Exceptions.                                                             *)
(***************************************************************************)
Lit(t) == [lit |-> t]
Interp(s) == [str |-> s]

ValueError(msg) == [type |-> "ValueError", msg |-> msg]
RuntimeError(msg) == [type |-> "RuntimeError", msg |-> msg]

\* str(e) of an exception built from one message
StrOf(e) == e.msg

MsgInsufficient == <<Lit("Insufficient image data / [zh]")>>
MsgInvalidLength == <<Lit("Payload length invalid / [zh]")>>
MsgHeaderCorrupt == <<Lit("Header corrupted / [zh]")>>
MsgLengthMismatch == <<Lit("Data length mismatch / [zh]")>>
MsgPasswordRequired == <<Lit("Password required / [zh]")>>
MsgWrongPassword == <<Lit("Wrong password / [zh]")>>
MsgExhausted == <<Lit("Failed to extract data / [zh]")>>

\* what a call gives back: a value, or a raised exception
Returned(v) == [ok |-> TRUE, val |-> v]
Raised(e) == [ok |-> FALSE, exc |-> e]

(***************************************************************************)
(* _extract_payload_with_k                                                 *)
(***************************************************************************)
ImgH(arr) == Len(arr)
ImgW(arr) == IF Len(arr) = 0 THEN 0 ELSE Len(arr[1])

\* skip_w = int(w * WATERMARK_SKIP_W_RATIO), skip_h = int(h * WATERMARK_SKIP_H_RATIO)
SkipW(w) == (w * WATERMARK_SKIP_W_RATIO) \div 100
SkipH(h) == (h * WATERMARK_SKIP_H_RATIO) \div 100

\* (variant: a pixel excluded when its row or its column is in the rectangle)
Mask2dEither(h, w, r, c) ==
    IF SkipW(w) > 0 /\ SkipH(h) > 0
    THEN ~(r < SkipH(h) \/ c < SkipW(w))
    ELSE TRUE

\* mask2d[r][c] for 0-based r, c: all True, and False on [:skip_h, :skip_w]
\* when both are positive
Mask2d(h, w, r, c) ==
    IF SkipW(w) > 0 /\ SkipH(h) > 0
    THEN ~(r < SkipH(h) /\ c < SkipW(w))
    ELSE TRUE

\* (variant: the channels of a pixel read in the order B, G, R)
FlatAtBGR(arr, n) ==
    LET w == ImgW(arr)
        r == n \div (w * DUCK_CHANNELS)
        c == (n % (w * DUCK_CHANNELS)) \div DUCK_CHANNELS
        ch == n % DUCK_CHANNELS
    IN  arr[r + 1][c + 1][DUCK_CHANNELS - ch]

\* arr.reshape(-1): row-major, the channel varying fastest (0-based index n)
FlatAt(arr, n) ==
    LET w == ImgW(arr)
        r == n \div (w * DUCK_CHANNELS)
        c == (n % (w * DUCK_CHANNELS)) \div DUCK_CHANNELS
        ch == n % DUCK_CHANNELS
    IN  arr[r + 1][c + 1][ch + 1]

\* np.flatnonzero(mask3d.reshape(-1)): the flat indices lo..hi-1 of the
\* unmasked channels, ascending
RECURSIVE FlatNonZero(_, _, _, _)
FlatNonZero(h, w, lo, hi) ==
    IF lo >= hi THEN <<>>
    ELSE IF hi = lo + 1
    THEN IF Mask2d(h, w, lo \div (w * DUCK_CHANNELS),
                   (lo % (w * DUCK_CHANNELS)) \div DUCK_CHANNELS)
         THEN <<lo>> ELSE <<>>
    ELSE LET mid == (lo + hi) \div 2
         IN  FlatNonZero(h, w, lo, mid) \o FlatNonZero(h, w, mid, hi)

Idxs(arr) == FlatNonZero(ImgH(arr), ImgW(arr), 0,
                         ImgH(arr) * ImgW(arr) * DUCK_CHANNELS)

\* vals = flat[idxs] & ((1 << k) - 1)
Vals(arr, k) ==
    LET idxs == Idxs(arr)
    IN  [j \in 1..Len(idxs) |-> FlatAt(arr, idxs[j]) % Pow2(k)]

\* (variant: the k low bits least significant first)
ExtractBitsLsbFirst(arr, k) ==
    LET vals == Vals(arr, k)
    IN  [n \in 1..(Len(vals) * k) |->
            (vals[((n - 1) \div k) + 1] \div Pow2((n - 1) % k)) % 2]

\* bits = np.unpackbits(vals).reshape(-1, 8)[:, -k:].reshape(-1): bit n of
\* the stream is column (8 - k) + ((n - 1) % k) + 1 of the 8 unpacked bits of
\* value ((n - 1) \div k) + 1
ExtractBits(arr, k) ==
    LET vals == Vals(arr, k)
    IN  [n \in 1..(Len(vals) * k) |->
            UnpackBits8(vals[((n - 1) \div k) + 1])[(8 - k) + ((n - 1) % k) + 1]]

\* the length prefix and the two checks on it, for an extracted bit stream
HeaderLenOf(bits) == UnpackU32BE(PackBits(SubSeq(bits, 1, LEN_PREFIX_BITS)))

\* (variant: a stream with no bit to spare is refused)
PayloadOfBitsNoExactFit(bits) ==
    IF Len(bits) < LEN_PREFIX_BITS THEN Raised(ValueError(MsgInsufficient))
    ELSE LET header_len == HeaderLenOf(bits)
             total_bits == LEN_PREFIX_BITS + header_len * 8
         IN  IF header_len <= 0 \/ total_bits >= Len(bits)
             THEN Raised(ValueError(MsgInvalidLength))
             ELSE Returned(PackBits(SubSeq(bits, LEN_PREFIX_BITS + 1,
                                           LEN_PREFIX_BITS + header_len * 8)))

\* (variant: a stream must also hold one byte after the length prefix)
PayloadOfBitsMinByte(bits) ==
    IF Len(bits) < LEN_PREFIX_BITS + 8 THEN Raised(ValueError(MsgInsufficient))
    ELSE LET header_len == HeaderLenOf(bits)
             total_bits == LEN_PREFIX_BITS + header_len * 8
         IN  IF header_len <= 0 \/ total_bits > Len(bits)
             THEN Raised(ValueError(MsgInvalidLength))
             ELSE Returned(PackBits(SubSeq(bits, LEN_PREFIX_BITS + 1,
                                           LEN_PREFIX_BITS + header_len * 8)))

\* lines 50-59, for the bit stream of line 49
PayloadOfBits(bits) ==
    IF Len(bits) < LEN_PREFIX_BITS THEN Raised(ValueError(MsgInsufficient))
    ELSE LET header_len == HeaderLenOf(bits)
             total_bits == LEN_PREFIX_BITS + header_len * 8
         IN  IF header_len <= 0 \/ total_bits > Len(bits)
             THEN Raised(ValueError(MsgInvalidLength))
             ELSE Returned(PackBits(SubSeq(bits, LEN_PREFIX_BITS + 1,
                                           LEN_PREFIX_BITS + header_len * 8)))

extract_payload_with_k(arr, k) == PayloadOfBits(ExtractBits(arr, k))

(***************************************************************************)
(* _generate_key_stream                                                    *)
(***************************************************************************)
\* key_material = (password + salt.hex()).encode("utf-8")
KeyMaterial(password, salt) == Utf8Encode(password \o Hex(salt))

\* (variant: the counter of a block written after it is incremented)
RECURSIVE KeyStreamLoopFromOne(_, _, _, _)
KeyStreamLoopFromOne(key_material, length, out, counter) ==
    IF Len(out) < length
    THEN KeyStreamLoopFromOne(key_material, length,
             out \o Sha256(key_material \o Utf8Encode(DecimalStr(counter + 1))),
             counter + 1)
    ELSE out

\* lines 76-81: the loop, from the values of out and counter
RECURSIVE KeyStreamLoop(_, _, _, _)
KeyStreamLoop(key_material, length, out, counter) ==
    IF Len(out) < length
    THEN KeyStreamLoop(key_material, length,
             out \o Sha256(key_material \o Utf8Encode(DecimalStr(counter))),
             counter + 1)
    ELSE out

generate_key_stream(password, salt, length) ==
    Slice(KeyStreamLoop(KeyMaterial(password, salt), length, <<>>, 0), 0, length)

\* the byte strings given to hashlib.sha256 by the loop of lines 76-81, in
\* the order of the calls, from len(out) = outlen and the value of counter
RECURSIVE KeyStreamHashed(_, _, _, _)
KeyStreamHashed(key_material, length, outlen, counter) ==
    IF outlen < length
    THEN LET combined == key_material \o Utf8Encode(DecimalStr(counter))
         IN  <<combined>>
             \o KeyStreamHashed(key_material, length,
                                outlen + Len(Sha256(combined)), counter + 1)
    ELSE <<>>

(***************************************************************************)
(* _parse_header                                                           *)
(***************************************************************************)
\* a ^ b on bytes
RECURSIVE XorBits(_, _, _)
XorBits(a, b, n) ==
    IF n = 0 THEN 0
    ELSE 2 * XorBits(a \div 2, b \div 2, n - 1) + ((a + b) % 2)

XorByte(a, b) == XorBits(a, b, 8)

\* bytes(a ^ b for a, b in zip(data, ks))
XorZip(data, ks) ==
    [i \in 1..Min(Len(data), Len(ks)) |-> XorByte(data[i], ks[i])]

\* (variant: the extension read one byte early)
HeaderFieldsExtEarly(header) ==
    LET has_pwd == header[1] = 1
        idx1 == 1
        idx2 == IF has_pwd THEN idx1 + PWD_HASH_LEN + SALT_LEN ELSE idx1
        ext_len == header[idx2 + 1]
        idx3 == idx2 + 1
        idx4 == idx3 + ext_len
        idx5 == idx4 + DATA_LEN_BYTES
    IN  [has_pwd |-> has_pwd,
         pwd_hash |-> IF has_pwd THEN Slice(header, idx1, idx1 + PWD_HASH_LEN)
                      ELSE <<>>,
         salt |-> IF has_pwd
                  THEN Slice(header, idx1 + PWD_HASH_LEN, idx2)
                  ELSE <<>>,
         ext_len |-> ext_len,
         ext |-> Utf8DecodeIgnore(Slice(header, idx3 - 1, idx4 - 1)),
         data_len |-> UnpackU32BE(Slice(header, idx4, idx5)),
         data |-> Slice(header, idx5, Len(header))]

\* the fields read by lines 96-120, for a header that is long enough for them
HeaderFields(header) ==
    LET has_pwd == header[1] = 1
        idx1 == 1
        idx2 == IF has_pwd THEN idx1 + PWD_HASH_LEN + SALT_LEN ELSE idx1
        ext_len == header[idx2 + 1]
        idx3 == idx2 + 1
        idx4 == idx3 + ext_len
        idx5 == idx4 + DATA_LEN_BYTES
    IN  [has_pwd |-> has_pwd,
         pwd_hash |-> IF has_pwd THEN Slice(header, idx1, idx1 + PWD_HASH_LEN)
                      ELSE <<>>,
         salt |-> IF has_pwd
                  THEN Slice(header, idx1 + PWD_HASH_LEN, idx2)
                  ELSE <<>>,
         ext_len |-> ext_len,
         ext |-> Utf8DecodeIgnore(Slice(header, idx3, idx4)),
         data_len |-> UnpackU32BE(Slice(header, idx4, idx5)),
         data |-> Slice(header, idx5, Len(header))]

\* (variants: no check of the data length; a longer segment accepted)
DataLengthUnchecked(f) == TRUE
DataLengthAtLeast(f) == Len(f.data) >= f.data_len
\* line 121: the data segment must be exactly as long as declared
DataLengthOk(f) == Len(f.data) = f.data_len

\* (variant: the rejected password quoted in the error)
PasswordStageEcho(f, password) ==
    IF ~f.has_pwd THEN Returned(<<f.data, f.ext>>)
    ELSE IF password = <<>> THEN Raised(ValueError(MsgPasswordRequired))
    ELSE IF Sha256(Utf8Encode(password \o Hex(f.salt))) # f.pwd_hash
         THEN Raised(ValueError(MsgWrongPassword \o <<Interp(password)>>))
    ELSE Returned(<<XorZip(f.data,
                           generate_key_stream(password, f.salt, Len(f.data))),
                    f.ext>>)

\* (variant: no verification of the password)
PasswordStageNoVerify(f, password) ==
    IF ~f.has_pwd THEN Returned(<<f.data, f.ext>>)
    ELSE IF password = <<>> THEN Raised(ValueError(MsgPasswordRequired))
    ELSE Returned(<<XorZip(f.data,
                           generate_key_stream(password, f.salt, Len(f.data))),
                    f.ext>>)

\* (variant: a supplied password is used whatever the flag says)
PasswordStageAlwaysDecrypt(f, password) ==
    IF ~f.has_pwd /\ password = <<>> THEN Returned(<<f.data, f.ext>>)
    ELSE IF password = <<>> THEN Raised(ValueError(MsgPasswordRequired))
    ELSE IF f.has_pwd /\ Sha256(Utf8Encode(password \o Hex(f.salt))) # f.pwd_hash
         THEN Raised(ValueError(MsgWrongPassword))
    ELSE Returned(<<XorZip(f.data,
                           generate_key_stream(password, f.salt, Len(f.data))),
                    f.ext>>)

\* the password stage, lines 123-133
PasswordStage(f, password) ==
    IF ~f.has_pwd THEN Returned(<<f.data, f.ext>>)
    ELSE IF password = <<>> THEN Raised(ValueError(MsgPasswordRequired))
    ELSE IF Sha256(Utf8Encode(password \o Hex(f.salt))) # f.pwd_hash
         THEN Raised(ValueError(MsgWrongPassword))
    ELSE Returned(<<XorZip(f.data,
                           generate_key_stream(password, f.salt, Len(f.data))),
                    f.ext>>)

\* (variant: the verification hash computed before the password is looked at)
PasswordStageHashedEager(f, password) ==
    IF ~f.has_pwd THEN <<>>
    ELSE LET km == Utf8Encode(password \o Hex(f.salt))
         IN  IF password = <<>> \/ Sha256(km) # f.pwd_hash THEN <<km>>
             ELSE <<km>> \o KeyStreamHashed(km, Len(f.data), 0, 0)

\* the byte strings given to hashlib.sha256 by lines 123-131, in the order of
\* the calls
PasswordStageHashed(f, password) ==
    IF ~f.has_pwd THEN <<>>
    ELSE IF password = <<>> THEN <<>>
    ELSE LET km == Utf8Encode(password \o Hex(f.salt))
         IN  IF Sha256(km) # f.pwd_hash THEN <<km>>
             ELSE <<km>> \o KeyStreamHashed(km, Len(f.data), 0, 0)

\* what struct.unpack raises on a buffer that is not 4 bytes long
StructError == [type |-> "struct.error",
                msg |-> <<[lit |-> "unpack requires a buffer of 4 bytes"]>>]

\* (variant: no check of lines 114-115, so that line 118 unpacks a short
\* buffer)
parse_header_no_field_check(header, password) ==
    IF Len(header) < 1 THEN Raised(ValueError(MsgHeaderCorrupt))
    ELSE LET has_pwd == header[1] = 1
             idx2 == IF has_pwd THEN 1 + PWD_HASH_LEN + SALT_LEN ELSE 1
         IN  IF has_pwd /\ Len(header) < 1 + PWD_HASH_LEN + SALT_LEN
             THEN Raised(ValueError(MsgHeaderCorrupt))
             ELSE IF Len(header) < idx2 + 1
             THEN Raised(ValueError(MsgHeaderCorrupt))
             ELSE IF Len(header) < idx2 + 1 + header[idx2 + 1] + DATA_LEN_BYTES
             THEN Raised(StructError)
             ELSE LET f == HeaderFields(header)
                  IN  IF ~DataLengthOk(f)
                      THEN Raised(ValueError(MsgLengthMismatch))
                      ELSE PasswordStage(f, password)

parse_header(header, password) ==
    IF Len(header) < 1 THEN Raised(ValueError(MsgHeaderCorrupt))
    ELSE LET has_pwd == header[1] = 1
             idx2 == IF has_pwd THEN 1 + PWD_HASH_LEN + SALT_LEN ELSE 1
         IN  IF has_pwd /\ Len(header) < 1 + PWD_HASH_LEN + SALT_LEN
             THEN Raised(ValueError(MsgHeaderCorrupt))
             ELSE IF Len(header) < idx2 + 1
             THEN Raised(ValueError(MsgHeaderCorrupt))
             ELSE IF Len(header) < idx2 + 1 + header[idx2 + 1] + DATA_LEN_BYTES
             THEN Raised(ValueError(MsgHeaderCorrupt))
             ELSE LET f == HeaderFields(header)
                  IN  IF ~DataLengthOk(f)
                      THEN Raised(ValueError(MsgLengthMismatch))
                      ELSE PasswordStage(f, password)

\* the byte strings _parse_header gives to hashlib.sha256, in call order:
\* none when it raises before line 127
parse_header_hashed(header, password) ==
    IF Len(header) < 1 THEN <<>>
    ELSE LET has_pwd == header[1] = 1
             idx2 == IF has_pwd THEN 1 + PWD_HASH_LEN + SALT_LEN ELSE 1
         IN  IF \/ has_pwd /\ Len(header) < 1 + PWD_HASH_LEN + SALT_LEN
                \/ Len(header) < idx2 + 1
             THEN <<>>
             ELSE IF Len(header) < idx2 + 1 + header[idx2 + 1] + DATA_LEN_BYTES
             THEN <<>>
             ELSE LET f == HeaderFields(header)
                  IN  IF ~DataLengthOk(f) THEN <<>>
                      ELSE PasswordStageHashed(f, password)

\* one iteration of the loop of extract_with_fallback (lines 159-165): the
\* value returned, or the exception caught
Attempt(arr, k, password) ==
    LET header == extract_payload_with_k(arr, k)
    IN  IF ~header.ok THEN header
        ELSE parse_header(header.val, password)

(***************************************************************************)
(* The carriers the calls are made on.  The encoder is not part of the     *)
(* repository: a carrier is built here by writing a bit stream into the k  *)
(* low bits of the unmasked channels of an h x w image, most significant   *)
(* bit first, the other bits of every channel being those of `cover`.      *)
(***************************************************************************)
\* bounds: the size of the standard carrier
CarrierH == 13
CarrierW == 10
\* bound: the longest plaintext an encoded fixture carries
MaxData == 33

U32BEBytes(n) ==
    <<(n \div 16777216) % 256, (n \div 65536) % 256, (n \div 256) % 256, n % 256>>

BitsOfBytes(b) ==
    [n \in 1..(8 * Len(b)) |-> UnpackBits8(b[((n - 1) \div 8) + 1])[((n - 1) % 8) + 1]]

\* the stream an encoder writes for a blob: the length prefix, then the blob
StreamOf(blob) == BitsOfBytes(U32BEBytes(Len(blob)) \o blob)

\* the number of masked pixels before pixel (r, c), 0-based, in row-major order
MaskedBefore(h, w, r, c) ==
    IF SkipW(w) > 0 /\ SkipH(h) > 0
    THEN IF r < SkipH(h) THEN r * SkipW(w) + Min(c, SkipW(w))
         ELSE SkipH(h) * SkipW(w)
    ELSE 0

\* the value of k stream bits from position p (1-based), zero past the end
ChunkValue(stream, p, k) ==
    LET bit(i) == IF i <= Len(stream) THEN stream[i] ELSE 0
        RECURSIVE val(_, _)
        val(i, acc) == IF i = k THEN acc ELSE val(i + 1, 2 * acc + bit(p + i))
    IN  val(0, 0)

Embed(stream, k, h, w, cover) ==
    [r \in 1..h |-> [c \in 1..w |-> [ch \in 1..DUCK_CHANNELS |->
        IF ~Mask2d(h, w, r - 1, c - 1) THEN 255 - cover
        ELSE LET rank == ((r - 1) * w + (c - 1)
                          - MaskedBefore(h, w, r - 1, c - 1)) * DUCK_CHANNELS
                         + (ch - 1)
             IN  (cover \div Pow2(k)) * Pow2(k)
                 + ChunkValue(stream, rank * k + 1, k)]]]

\* a well-formed header blob, as the decoder expects it
Blob(has_pwd, enc_password, salt, ext, plain) ==
    LET data == IF has_pwd = 1
                THEN XorZip(plain, generate_key_stream(enc_password, salt, Len(plain)))
                ELSE plain
    IN  <<has_pwd>>
        \o (IF has_pwd = 1
            THEN Sha256(Utf8Encode(enc_password \o Hex(salt))) \o salt
            ELSE <<>>)
        \o <<Len(Utf8Encode(ext))>> \o Utf8Encode(ext)
        \o U32BEBytes(Len(data)) \o data

(***************************************************************************)
(* The files of the model.                                                 *)
(***************************************************************************)
Txt == <<116, 120, 116>>                       \* "txt"
Secret == <<115, 101, 99, 114, 101, 116>>      \* "secret"
Other == <<115, 233, 99, 114, 101, 116>>       \* "s", e acute, "cret"
Wrong == <<120>>                                \* "x"
Passwords == {<<>>, Secret, Other, Wrong}

SaltA == [i \in 1..SALT_LEN |-> (i * 37 + 11) % 256]

\* a plaintext of n bytes with zero bytes inside
Plain(n) == [i \in 1..n |-> IF i % 3 = 2 THEN 0 ELSE (64 + i) % 256]

\* header blobs: well-formed ones, and ones broken in each way the parser
\* tells apart
\* what the well-formed blobs 1..5 were made from
Orig(i) ==
    CASE i = 1 -> [has_pwd |-> 0, pw |-> <<>>, salt |-> <<>>, ext |-> Txt,
                   plain |-> <<65>>]
      [] i = 2 -> [has_pwd |-> 0, pw |-> <<>>, salt |-> <<>>, ext |-> <<>>,
                   plain |-> <<>>]
      [] i = 3 -> [has_pwd |-> 1, pw |-> Secret, salt |-> SaltA, ext |-> Txt,
                   plain |-> Plain(3)]
      [] i = 4 -> [has_pwd |-> 1, pw |-> Secret, salt |-> SaltA, ext |-> Txt,
                   plain |-> Plain(MaxData)]
      [] OTHER -> [has_pwd |-> 1, pw |-> Other, salt |-> SaltA,
                   ext |-> <<112, 233>>, plain |-> Plain(2)]

WellFormedIds == 1..5

BlobAt(i) ==
    CASE i \in WellFormedIds ->
               Blob(Orig(i).has_pwd, Orig(i).pw, Orig(i).salt, Orig(i).ext,
                    Orig(i).plain)
      [] i = 6 -> <<2, 3>> \o Utf8Encode(Txt) \o U32BEBytes(1) \o <<65>>
      [] i = 7 -> <<0>>
      [] i = 8 -> <<1, 9, 9, 9>>
      [] i = 9 -> <<0, 5, 116>>
      [] i = 10 -> <<0, 1, 255, 0, 0>>
      [] i = 11 -> <<0, 3>> \o Utf8Encode(Txt) \o U32BEBytes(2) \o <<65>>
      [] i = 12 -> <<0, 3>> \o Utf8Encode(Txt) \o U32BEBytes(1) \o <<65, 66>>
      [] i = 13 -> <<0, 3>> \o Utf8Encode(Txt) \o <<255, 255, 255, 255>> \o <<65>>
      [] OTHER -> <<1>> \o Sha256(Utf8Encode(Secret \o Hex(SaltA))) \o SaltA
                       \o <<0>> \o U32BEBytes(3) \o <<1, 2>>

BlobIds == 1..14

\* bit streams that are no encoder's output: a zero length prefix, a prefix
\* that declares more than any carrier holds, and the largest prefix
StreamZeroLen == BitsOfBytes(<<0, 0, 0, 0, 0, 3, 116>>)
StreamHugeLen == BitsOfBytes(<<0, 1, 0, 0, 0, 3, 116>>)
StreamMaxLen == BitsOfBytes(<<255, 255, 255, 255, 0>>)

\* an 8-byte blob fills a carrier of 16 unmasked pixels at depth 2 and one of
\* 4 pixels at depth 8 exactly
ExactBlob == Blob(0, <<>>, <<>>, <<116>>, <<65>>)

\* a grey-scale file (mode L): one byte per pixel
GreyPixels == [r \in 1..3 |-> [c \in 1..4 |-> (r * 4 + c) % 4]]

\* payloads marked as a video kept as an image: one that is an image file
\* (signature, colour type 2, 1 row of 2 pixels, samples 0 5 0 6 0 0) and
\* one that is not
MarkedExt == <<109, 112, 52, 46, 98, 105, 110, 112, 110, 103>>   \* "mp4.binpng"
MarkedBlob == Blob(0, <<>>, <<>>, MarkedExt,
                   <<137, 80, 78, 71, 2, 1, 2, 0, 5, 0, 6, 0, 0>>)
MarkedBadBlob == Blob(0, <<>>, <<>>, MarkedExt, <<66, 77>>)

NumEncoded == Cardinality(BlobIds) * Len(Depths)

\* file n.  The first NumEncoded files carry each blob at each depth in a
\* standard carrier; then come the streams no encoder writes, the carriers
\* that a blob fills exactly, one too small for any length prefix, a file in
\* mode L, a file whose pixel data is cut short, a file that is no image, a
\* path that does not exist, and a black 64 x 64 carrier with blob 1 at
\* depth 2.  Files NumEncoded + 13 and + 14 carry the marked payloads at
\* depth 8.
FileIds == 1..(NumEncoded + 12)

Image(px) == [kind |-> "image", mode |-> "RGB", px |-> px]

File(n) ==
    LET m == n - NumEncoded
    IN  CASE n <= NumEncoded ->
               Image(Embed(StreamOf(BlobAt(((n - 1) \div Len(Depths)) + 1)),
                           Depths[((n - 1) % Len(Depths)) + 1],
                           CarrierH, CarrierW,
                           IF n % 2 = 1 THEN 0 ELSE 255))
          [] m = 1 -> Image(Embed(StreamZeroLen, 2, CarrierH, CarrierW, 0))
          [] m = 2 -> Image(Embed(StreamHugeLen, 6, CarrierH, CarrierW, 255))
          [] m = 3 -> Image(Embed(StreamMaxLen, 8, CarrierH, CarrierW, 0))
          [] m = 4 -> Image(Embed(StreamOf(ExactBlob), 2, 4, 4, 255))
          [] m = 5 -> Image(Embed(StreamOf(ExactBlob), 8, 2, 2, 0))
          [] m = 6 -> Image(Embed(StreamOf(ExactBlob \o <<0>>), 8, 2, 2, 0))
          [] m = 7 -> Image(Embed(StreamOf(ExactBlob), 8, 1, 1, 0))
          [] m = 8 -> [kind |-> "image", mode |-> "L", px |-> GreyPixels]
          [] m = 9 -> [kind |-> "truncated", mode |-> "RGB", px |-> <<>>]
          [] m = 10 -> [kind |-> "notimage", mode |-> "", px |-> <<>>]
          [] m = 11 -> [kind |-> "missing", mode |-> "", px |-> <<>>]
          [] m = 13 -> Image(Embed(StreamOf(MarkedBlob), 8, 4, 4, 0))
          [] m = 14 -> Image(Embed(StreamOf(MarkedBadBlob), 8, 3, 3, 255))
          [] OTHER -> Image(Embed(StreamOf(BlobAt(1)), 2, 64, 64, 0))

\* the path of file n: "d<n>.png"
PathOf(n) == <<100>> \o DecimalStr(n) \o <<46, 112, 110, 103>>

Paths == {PathOf(n) : n \in FileIds}

\* the files with a marked payload
MarkedFileIds == (NumEncoded + 13)..(NumEncoded + 14)

FileAt(path) == File(CHOOSE n \in FileIds \cup MarkedFileIds : PathOf(n) = path)

\* the files whose blob has the password flag set
ProtectedFiles ==
    {Len(Depths) * (i - 1) + d : i \in {3, 4, 5, 14}, d \in 1..Len(Depths)}

\* the calls made: every password on the protected files, no password and one
\* password on the others
Inputs ==
    {<<PathOf(n), pw>> : n \in ProtectedFiles, pw \in Passwords}
    \cup {<<PathOf(n), pw>> : n \in FileIds \ ProtectedFiles, pw \in {<<>>, Secret}}

(***************************************************************************)
(* Image.open(image_path), img.convert("RGB"), np.array(img) (lines        *)
(* 148-150).  Pillow's own messages are kept by their variable part: the   *)
(* path they quote.                                                        *)
(***************************************************************************)
OSError(msg) == [type |-> "OSError", msg |-> msg]

\* img.convert("RGB"): an RGB image is kept, a grey value becomes three
\* equal channels
ConvertRGB(mode, px) ==
    IF mode = "RGB" THEN px
    ELSE [r \in 1..Len(px) |-> [c \in 1..Len(px[r]) |->
             [ch \in 1..DUCK_CHANNELS |-> px[r][c]]]]

LoadRGB(image_path) ==
    LET f == FileAt(image_path)
    IN  CASE f.kind = "image" -> Returned(ConvertRGB(f.mode, f.px))
          [] f.kind = "truncated" ->
                Raised(OSError(<<Lit("image file is truncated")>>))
          [] f.kind = "notimage" ->
                Raised(OSError(<<Lit("cannot identify image file "),
                                 Interp(image_path)>>))
          [] OTHER ->
                Raised(OSError(<<Lit("[Errno 2] No such file or directory: "),
                                 Interp(image_path)>>))

(***************************************************************************)
(* extract_with_fallback                                                   *)
(***************************************************************************)
VARIABLES
    pc,          \* where the call is: idle, open, loop, returned, raised
    image_path,  \* argument
    password,    \* argument
    arr,         \* local: the pixel array, <<>> before it is loaded
    ki,          \* local: the position in Depths of the next iteration
    raw,         \* local raw (and ext): <<>> for None, else <<value>>
    last_err,    \* local last_err: <<>> for None, else <<exception>>
    outcome,     \* <<>> while the call runs, then <<Returned(..)>> or <<Raised(..)>>
    attempts,    \* history: the iterations run by this call, [k, res]
    unit,        \* a direct call of one function of the module: its name,
                 \* arguments and, once it has run, what it gave back
    disk,        \* the files written: path -> bytes
    dirs,        \* the directories that exist
    dec,         \* the calls of decode_duck_image: for each, where it is,
                 \* its arguments, locals and result
    wait         \* a call of RunningHubClient.wait_for_completion

vars == <<pc, image_path, password, arr, ki, raw, last_err, outcome, attempts,
          unit, disk, dirs, dec, wait>>

\* no direct call is made; nothing has been written
NoCall == [fn |-> "none", done |-> TRUE]
NoFiles == <<>>
NoDirs == {}
NoDecode == <<>>
NoWait == [pc |-> "none"]

\* (variant: the low bits taken in place, flat[idxs] &= mask)
ArrAfterAttemptInPlace(a, k) ==
    [r \in 1..Len(a) |-> [c \in 1..Len(a[r]) |-> [ch \in 1..DUCK_CHANNELS |->
        IF Mask2d(ImgH(a), ImgW(a), r - 1, c - 1)
        THEN a[r][c][ch] % Pow2(k) ELSE a[r][c][ch]]]]

\* lines 45-47: flat[idxs] & mask builds new arrays; arr is what it was
ArrAfterAttempt(a, k) == a

\* (variant: the path of the image added to the message)
WrapExtractionWithPath(e) ==
    ValueError(<<Lit("Extraction failed: ")>> \o StrOf(e)
               \o <<Lit(" / [zh]: ")>> \o StrOf(e)
               \o <<Lit(" image: "), Interp(image_path)>>)

\* line 171: ValueError(f"Extraction failed: {e} / [zh]: {e}")
WrapExtraction(e) ==
    ValueError(<<Lit("Extraction failed: ")>> \o StrOf(e)
               \o <<Lit(" / [zh]: ")>> \o StrOf(e))

\* (variant: the first error is kept)
RecordFirstError(prev, e) == IF prev = <<>> THEN <<e>> ELSE prev
\* (variant: an error about the password is not replaced by a later error)
RecordPasswordError(prev, e) ==
    IF prev # <<>> /\ prev[1].msg \in {MsgPasswordRequired, MsgWrongPassword}
    THEN prev ELSE <<e>>
\* line 164: last_err = e
RecordError(prev, e) == <<e>>

\* (variant: the generic error whatever was recorded)
ErrorToRaiseGeneric(err) == RuntimeError(MsgExhausted)
\* line 168: last_err or RuntimeError("Failed to extract data")
ErrorToRaise(err) ==
    IF err # <<>> THEN err[1] ELSE RuntimeError(MsgExhausted)

\* line 158: the loop runs while a depth is left
DepthLeft(i) == i <= Len(Depths)

\* the whole call as a function of its arguments and of the file read: what
\* lines 147-171 return or raise when the loop is entered at position i with
\* last_err = err
RECURSIVE FallbackFrom(_, _, _, _)
FallbackFrom(a, pw, i, err) ==
    IF ~DepthLeft(i) THEN Raised(WrapExtraction(ErrorToRaise(err)))
    ELSE LET r == Attempt(a, Depths[i], pw)
         IN  IF r.ok THEN r
             ELSE FallbackFrom(a, pw, i + 1, RecordError(err, r.exc))

ExtractOutcome(path, pw) ==
    LET r == LoadRGB(path)
    IN  IF r.ok THEN FallbackFrom(r.val, pw, 1, <<>>)
        ELSE Raised(WrapExtraction(r.exc))

Init ==
    /\ pc = "idle"
    /\ image_path = <<>>
    /\ password = <<>>
    /\ arr = <<>>
    /\ ki = 1
    /\ raw = <<>>
    /\ last_err = <<>>
    /\ outcome = <<>>
    /\ attempts = <<>>
    /\ unit = NoCall
    /\ disk = NoFiles
    /\ dirs = NoDirs
    /\ dec = NoDecode
    /\ wait = NoWait

\* a caller enters extract_with_fallback(path, pw); no call is running
Call(path, pw) ==
    /\ pc \in {"idle", "returned", "raised"}
    /\ pc' = "open"
    /\ image_path' = path
    /\ password' = pw
    /\ arr' = <<>>
    /\ ki' = 1
    /\ raw' = <<>>
    /\ last_err' = <<>>
    /\ outcome' = <<>>
    /\ attempts' = <<>>
    /\ UNCHANGED <<unit, disk, dirs, dec, wait>>

\* lines 148-155: the image is read, or the read raises into line 170
Open ==
    /\ pc = "open"
    /\ LET r == LoadRGB(image_path)
       IN  IF r.ok
           THEN /\ arr' = r.val
                /\ pc' = "loop"
                /\ outcome' = outcome
           ELSE /\ arr' = arr
                /\ pc' = "raised"
                /\ outcome' = <<Raised(WrapExtraction(r.exc))>>
    /\ UNCHANGED <<image_path, password, ki, raw, last_err, attempts, unit, disk,
                   dirs, dec, wait>>

\* lines 158-165: one iteration of the loop
Try ==
    /\ pc = "loop"
    /\ DepthLeft(ki)
    /\ LET k == Depths[ki]
           r == Attempt(arr, k, password)
       IN  /\ attempts' = Append(attempts, [k |-> k, res |-> r])
           /\ IF r.ok
              THEN /\ raw' = <<r.val>>
                   /\ outcome' = <<Returned(r.val)>>
                   /\ pc' = "returned"
                   /\ UNCHANGED <<last_err, ki>>
              ELSE /\ last_err' = RecordError(last_err, r.exc)
                   /\ ki' = ki + 1
                   /\ UNCHANGED <<raw, outcome, pc>>
    /\ arr' = ArrAfterAttempt(arr, Depths[ki])
    /\ UNCHANGED <<image_path, password, unit, disk, dirs, dec, wait>>

\* lines 167-171: the loop is over
AfterLoop ==
    /\ pc = "loop"
    /\ ~DepthLeft(ki)
    /\ IF raw = <<>>
       THEN /\ outcome' = <<Raised(WrapExtraction(ErrorToRaise(last_err)))>>
            /\ pc' = "raised"
       ELSE /\ outcome' = <<Returned(<<>>)>>
            /\ pc' = "returned"
    /\ UNCHANGED <<image_path, password, arr, ki, raw, last_err, attempts,
                   unit, disk, dirs, dec, wait>>

Next ==
    \/ \E in \in Inputs : Call(in[1], in[2])
    \/ Open
    \/ Try
    \/ AfterLoop

Spec == Init /\ [][Next]_vars

(***************************************************************************)
(* Properties.                                                             *)
(***************************************************************************)
Finished == pc \in {"returned", "raised"}

\* the file that carries blob i at depth Depths[d] in a standard carrier
EncodedFile(i, d) == Len(Depths) * (i - 1) + d

\* the black 64 x 64 carrier
ExampleFile == NumEncoded + 12

\* the payload and the extension a finished call returned
ReturnedPayload == outcome[1].val[1]
ReturnedExt == outcome[1].val[2]

\* The layout of a header blob as the format states it, in absolute byte
\* positions (1-based): where the extension length byte is, and the fields
\* after it.
FmtHasPwd(blob) == blob[1] = 1
FmtElPos(blob) == IF FmtHasPwd(blob) THEN 50 ELSE 2
FmtEl(blob) == blob[FmtElPos(blob)]
FmtDlPos(blob) == FmtElPos(blob) + FmtEl(blob) + 1
FmtDl(blob) ==
    LET p == FmtDlPos(blob)
    IN  IF blob[p] # 0 THEN U32Cap
        ELSE 65536 * blob[p + 1] + 256 * blob[p + 2] + blob[p + 3]
\* the blob holds every field up to and including the data length
FmtStructured(blob) ==
    /\ Len(blob) >= 1
    /\ Len(blob) >= FmtElPos(blob)
    /\ Len(blob) >= FmtDlPos(blob) + 3
FmtRest(blob) == Len(blob) - (FmtDlPos(blob) + 3)

\* C1: the depths are attempted in the order 2, 6, 8, each at most once, so
\* at most three times per call; an attempt that succeeds is the last one of
\* the call and its result is what the call returns, so no depth is tried
\* after the first success.
C1_DepthOrder ==
    /\ Len(attempts) <= 3
    /\ \A i \in 1..Len(attempts) : attempts[i].k = <<2, 6, 8>>[i]
    /\ \A i \in 1..Len(attempts) :
           attempts[i].res.ok =>
               /\ i = Len(attempts)
               /\ pc = "returned"
               /\ outcome = <<attempts[i].res>>
    /\ pc = "returned" =>
           /\ attempts # <<>>
           /\ attempts[Len(attempts)].res.ok

\* a call that failed at depth 2 and returned at depth 6
C1_Witness ==
    /\ pc = "returned"
    /\ Len(attempts) = 2
    /\ ~attempts[1].res.ok
    /\ attempts[2].k = 6
    /\ attempts[2].res.ok

\* C2: a call on a carrier whose depth-2 stream is the length prefix and a
\* well-formed blob returns the plaintext and the extension the blob was made
\* from, when the blob has no password, and when it has one and the call is
\* given that password.
C2_RoundTrip ==
    \A i \in WellFormedIds :
        ( /\ Finished
          /\ \/ image_path = PathOf(EncodedFile(i, 1))
             \/ i = 1 /\ image_path = PathOf(ExampleFile)
          /\ Orig(i).has_pwd = 0 \/ password = Orig(i).pw )
        => outcome = <<Returned(<<Orig(i).plain, Orig(i).ext>>)>>

\* an encrypted payload of more than one keystream block was decrypted
C2_Witness ==
    /\ pc = "returned"
    /\ image_path = PathOf(EncodedFile(4, 1))
    /\ password = Secret
    /\ ReturnedPayload = Plain(MaxData)

\* C3: a call that returns hands back the payload and extension of its last
\* attempt, which succeeded, and the payload is exactly as long as the data
\* length the blob of that depth declares; a call that raises has no attempt
\* that succeeded and hands back no payload.
C3_NoPartialSuccess ==
    /\ pc = "returned" =>
           /\ attempts # <<>>
           /\ LET a == attempts[Len(attempts)]
                  blob == extract_payload_with_k(arr, a.k)
              IN  /\ a.res.ok
                  /\ outcome = <<a.res>>
                  /\ blob.ok
                  /\ FmtStructured(blob.val)
                  /\ Len(ReturnedPayload) = FmtDl(blob.val)
    /\ pc = "raised" =>
           /\ ~outcome[1].ok
           /\ \A i \in 1..Len(attempts) : ~attempts[i].res.ok

\* a call returned a payload of several bytes
C3_Witness ==
    /\ pc = "returned"
    /\ Len(ReturnedPayload) >= 3

\* C4: after an attempt fails, whatever its error, last_err is that error
\* until the next attempt, and unless it was the third attempt the call goes
\* on to the next depth: it is in the loop about to try it, or has tried it.
C4_FailureAdvances ==
    \A i \in 1..Len(attempts) :
        ~attempts[i].res.ok =>
            /\ i = Len(attempts) => last_err = <<attempts[i].res.exc>>
            /\ i < 3 =>
                   \/ Len(attempts) = i /\ pc = "loop" /\ ki = i + 1
                   \/ Len(attempts) > i /\ attempts[i + 1].k = <<2, 6, 8>>[i + 1]

\* a wrong password at depth 2 was followed by the attempt at depth 6
C4_Witness ==
    /\ Len(attempts) >= 2
    /\ attempts[1].res = Raised(ValueError(MsgWrongPassword))
    /\ attempts[2].k = 6

\* C5: when all three depths failed the call raises the error of the last
\* attempt, in the wrapping of line 171; the generic error is raised only
\* when no error was recorded.
C5_LastErrorSurfaced ==
    (pc = "raised" /\ Len(attempts) = 3) =>
        /\ ~outcome[1].ok
        /\ outcome[1].exc.msg =
               <<Lit("Extraction failed: ")>> \o attempts[3].res.exc.msg
               \o <<Lit(" / [zh]: ")>> \o attempts[3].res.exc.msg
        /\ (\E j \in 1..Len(outcome[1].exc.msg) :
                outcome[1].exc.msg[j] = Lit("Failed to extract data / [zh]"))
               => last_err = <<>>

\* all three depths failed, the first and the last with different errors
C5_Witness ==
    /\ pc = "raised"
    /\ Len(attempts) = 3
    /\ attempts[1].res.exc # attempts[3].res.exc

\* the latest attempt of the running call, if the loop has run
HasAttempt == attempts # <<>> /\ pc \in {"loop", "returned"}
LastAttempt == attempts[Len(attempts)]

\* the message of the error a call raised
RaisedMsg == outcome[1].exc.msg

\* C6 as stated: the error raised when all three depths failed names the
\* image path and says whether a password was supplied.
C6_Annotated ==
    (pc = "raised" /\ Len(attempts) = 3) =>
        /\ \E j \in 1..Len(RaisedMsg) : RaisedMsg[j] = Interp(image_path)
        /\ \E j \in 1..Len(RaisedMsg) :
               RaisedMsg[j] = [password_supplied |-> password # <<>>]

\* C6, amended: the error raised when all three depths failed is made of
\* literal text of the source only; no value of the call, neither the image
\* path nor whether a password was supplied, is put into it.
C6_NoAnnotation ==
    (pc = "raised" /\ Len(attempts) = 3) =>
        \A j \in 1..Len(RaisedMsg) : DOMAIN RaisedMsg[j] = {"lit"}

\* all three depths failed in a call that was given a password
C6_Witness ==
    /\ pc = "raised"
    /\ Len(attempts) = 3
    /\ password # <<>>

\* the raise site of an error: the first part of the wrapped message
ErrorKind(msg) == msg[2]

\* C7: the only value ever put into the error of a call is the image path,
\* so never the password, the stored hash or keystream bytes; and a call on
\* the same image with another password that fails with the same kind of
\* error fails with the same message.
C7_NoSecretInError ==
    pc = "raised" =>
        /\ \A j \in 1..Len(RaisedMsg) :
               \/ DOMAIN RaisedMsg[j] = {"lit"}
               \/ RaisedMsg[j] = Interp(image_path)
        /\ \A p2 \in Passwords \ {password} :
               LET o2 == ExtractOutcome(image_path, p2)
               IN  (~o2.ok /\ ErrorKind(o2.exc.msg) = ErrorKind(RaisedMsg))
                       => o2.exc.msg = RaisedMsg

\* a call failed with a wrong password as its last error, and so does the
\* call with another non-empty password on the same image
C7_Witness ==
    /\ pc = "raised"
    /\ password = Wrong
    /\ Len(attempts) = 3
    /\ attempts[3].res = Raised(ValueError(MsgWrongPassword))
    /\ LET o2 == ExtractOutcome(image_path, Other)
       IN  ~o2.ok /\ ErrorKind(o2.exc.msg) = ErrorKind(RaisedMsg)

\* the first 32 bits of a stream as an unsigned big-endian number (values of
\* 2^24 and more are all given as 2^24)
RECURSIVE BigEndianValue(_, _, _)
BigEndianValue(bits, i, acc) ==
    IF i > 32 THEN acc ELSE BigEndianValue(bits, i + 1, 2 * acc + bits[i])

PrefixValue(bits) ==
    IF \E i \in 1..8 : bits[i] = 1 THEN U32Cap ELSE BigEndianValue(bits, 9, 0)

\* C8: an attempt whose stream has at least 32 bits fails with "Payload
\* length invalid" exactly when the length L read from the first 32 bits is
\* 0 or 32 + 8 * L is more than the number of bits of the stream.
C8_InvalidLengthExactly ==
    HasAttempt =>
        LET bits == ExtractBits(arr, LastAttempt.k)
        IN  Len(bits) >= 32 =>
                ( LastAttempt.res = Raised(ValueError(MsgInvalidLength))
                  <=> \/ PrefixValue(bits) <= 0
                      \/ 32 + 8 * PrefixValue(bits) > Len(bits) )

\* an attempt succeeded on a stream of exactly 32 + 8 * L bits
C8_Witness ==
    /\ HasAttempt
    /\ LastAttempt.res.ok
    /\ LET bits == ExtractBits(arr, LastAttempt.k)
       IN  Len(bits) = 32 + 8 * PrefixValue(bits)

\* C9: when an attempt succeeds, its blob has the stated layout: the flag,
\* the hash and the salt if the flag is 1, the extension length el, el bytes
\* of extension, the 4-byte data length dl, and dl bytes of data up to the
\* end of the blob; the extension and the payload returned are read from
\* these places, and the hash checked is the one stored there.
C9_Layout ==
    (HasAttempt /\ LastAttempt.res.ok) =>
        LET blob == extract_payload_with_k(arr, LastAttempt.k).val
            hp == FmtHasPwd(blob)
            el == FmtEl(blob)
            dl == FmtDl(blob)
            data == SubSeq(blob, FmtDlPos(blob) + 4, Len(blob))
        IN  /\ FmtStructured(blob)
            /\ Len(blob) = 1 + (IF hp THEN 48 ELSE 0) + 1 + el + 4 + dl
            /\ LastAttempt.res.val[2] =
                   Utf8DecodeIgnore(SubSeq(blob, FmtElPos(blob) + 1,
                                           FmtElPos(blob) + el))
            /\ IF hp
               THEN /\ SubSeq(blob, 2, 33) =
                           Sha256(Utf8Encode(password \o Hex(SubSeq(blob, 34, 49))))
                    /\ LastAttempt.res.val[1] =
                           XorZip(data, generate_key_stream(
                                            password, SubSeq(blob, 34, 49), dl))
               ELSE LastAttempt.res.val[1] = data

\* a blob with a password, a two-code-point extension and data was parsed
C9_Witness ==
    /\ pc = "returned"
    /\ image_path = PathOf(EncodedFile(5, 2))
    /\ password = Other
    /\ Len(ReturnedExt) = 2

\* C10: an attempt whose blob holds every field up to the data length, and
\* then a number of bytes other than dl, fails with "Data length mismatch".
C10_LengthMismatch ==
    HasAttempt =>
        LET b == extract_payload_with_k(arr, LastAttempt.k)
        IN  (b.ok /\ FmtStructured(b.val) /\ FmtRest(b.val) # FmtDl(b.val))
                => LastAttempt.res = Raised(ValueError(MsgLengthMismatch))

\* a blob with one byte more than declared was refused
C10_Witness ==
    /\ HasAttempt
    /\ image_path = PathOf(EncodedFile(12, 1))
    /\ Len(attempts) = 1
    /\ LastAttempt.res = Raised(ValueError(MsgLengthMismatch))

(***************************************************************************)
(* binpng_bytes_to_video_data and save_extracted_data                      *)
(*                                                                         *)
(* Pillow's PNG codec is library code.  A PNG file is stood for by a       *)
(* container of the same information: the 4 signature bytes, the colour    *)
(* type (0 grey, 2 RGB), the height, the width, then the samples row by    *)
(* row.                                                                    *)
(***************************************************************************)
PngSignature == <<137, 80, 78, 71>>
PngHeaderLen == Len(PngSignature) + 3

PngChannels(colour_type) == IF colour_type = 2 THEN DUCK_CHANNELS ELSE 1

\* the name tempfile gives the temporary file
TmpPath == <<116, 109, 112, 46, 112, 110, 103>>      \* "tmp.png"

\* Image.open(tmp_path) and the load that convert starts: the image, or the
\* OSError Pillow raises
PngOpen(png_bytes) ==
    IF \/ Len(png_bytes) < PngHeaderLen
       \/ SubSeq(png_bytes, 1, Len(PngSignature)) # PngSignature
       \/ png_bytes[5] \notin {0, 2}
       \/ png_bytes[6] = 0 \/ png_bytes[7] = 0
    THEN Raised(OSError(<<Lit("cannot identify image file "), Interp(TmpPath)>>))
    ELSE LET ch == PngChannels(png_bytes[5])
             h == png_bytes[6]
             w == png_bytes[7]
             at(r, c, k) == png_bytes[PngHeaderLen + ((r - 1) * w + (c - 1)) * ch + k]
         IN  IF Len(png_bytes) < PngHeaderLen + h * w * ch
             THEN Raised(OSError(<<Lit("image file is truncated")>>))
             ELSE Returned(
                    [mode |-> IF ch = 1 THEN "L" ELSE "RGB",
                     px |-> [r \in 1..h |-> [c \in 1..w |->
                               IF ch = 1 THEN at(r, c, 1)
                               ELSE [k \in 1..ch |-> at(r, c, k)]]]])

\* (variant: every zero byte removed)
RECURSIVE RemoveZeroBytes(_)
RemoveZeroBytes(b) ==
    IF b = <<>> THEN <<>>
    ELSE IF b[1] = 0 THEN RemoveZeroBytes(Tail(b))
    ELSE <<b[1]>> \o RemoveZeroBytes(Tail(b))

\* line 226: bytes.rstrip(b"\x00")
RECURSIVE RStripZero(_)
RStripZero(b) ==
    IF b = <<>> THEN <<>>
    ELSE IF b[Len(b)] = 0 THEN RStripZero(SubSeq(b, 1, Len(b) - 1))
    ELSE b

\* (variant: the buffer laid out plane by plane, all R, then all G, then all B)
FlatBytesPlanar(a) ==
    LET n == ImgH(a) * ImgW(a)
    IN  [i \in 1..(n * DUCK_CHANNELS) |->
            FlatAt(a, ((i - 1) % n) * DUCK_CHANNELS + ((i - 1) \div n))]

\* lines 224-225: arr.reshape(-1, 3).reshape(-1) as bytes
FlatBytes(a) ==
    [n \in 1..(ImgH(a) * ImgW(a) * DUCK_CHANNELS) |-> FlatAt(a, n - 1)]

binpng_bytes_to_video_data(png_bytes) ==
    LET img == PngOpen(png_bytes)
    IN  IF ~img.ok
        THEN Raised(ValueError(<<Lit("Failed to convert binary PNG to video: ")>>
                               \o StrOf(img.exc)))
        ELSE Returned(RStripZero(FlatBytes(ConvertRGB(img.val.mode, img.val.px))))

\* str.endswith
EndsWith(str, suffix) ==
    /\ Len(str) >= Len(suffix)
    /\ SubSeq(str, Len(str) - Len(suffix) + 1, Len(str)) = suffix

\* s in str
Contains(str, sub) ==
    \E i \in 1..(Len(str) - Len(sub) + 1) : SubSeq(str, i, i + Len(sub) - 1) = sub

BinpngSuffix == <<46, 98, 105, 110, 112, 110, 103>>   \* ".binpng"

\* (variant: the marker looked for anywhere in the extension)
IsBinpngAnywhere(file_ext) == Contains(file_ext, BinpngSuffix)
\* line 245: file_ext.endswith(".binpng")
IsBinpng(file_ext) == EndsWith(file_ext, BinpngSuffix)

\* the directories that exist; open(path, "wb") on one of them raises
OutDir == <<111, 117, 116>>                           \* "out"
Directories == {OutDir}

\* open(output_path, "wb"); f.write(bytes)
WriteFile(d, output_path, bytes) ==
    [q \in DOMAIN d \cup {output_path} |-> IF q = output_path THEN bytes ELSE d[q]]

SaveError(e) == ValueError(<<Lit("Failed to save extracted data: ")>> \o StrOf(e))

(***************************************************************************)
(* Paths.  A path is a str relative to the working directory, with "/" as  *)
(* separator and no "." or ".." component and no "/" at its end; the       *)
(* working directory exists and is writable.                               *)
(***************************************************************************)
Dot == 46
Slash == 47

\* str.lower() on ASCII letters
Lower(s) == [i \in 1..Len(s) |-> IF s[i] \in 65..90 THEN s[i] + 32 ELSE s[i]]

\* str.rfind(c), 1-based, 0 when c is not in s
RFind(s, c) ==
    IF \E i \in 1..Len(s) : s[i] = c
    THEN CHOOSE i \in 1..Len(s) : s[i] = c /\ \A j \in (i + 1)..Len(s) : s[j] # c
    ELSE 0

\* str.replace(old, ''), old not empty
RECURSIVE RemoveAll(_, _)
RemoveAll(s, old) ==
    IF Len(s) < Len(old) THEN s
    ELSE IF SubSeq(s, 1, Len(old)) = old
    THEN RemoveAll(SubSeq(s, Len(old) + 1, Len(s)), old)
    ELSE <<s[1]>> \o RemoveAll(Tail(s), old)

\* str.rsplit('.', 1)[0], for a str with a '.'
RSplitDot(s) == SubSeq(s, 1, RFind(s, Dot) - 1)

\* pathlib: Path(p).name, Path(p).stem, Path(p).suffix
PathName(p) == SubSeq(p, RFind(p, Slash) + 1, Len(p))
PathStem(p) ==
    LET name == PathName(p)
        i == RFind(name, Dot)
    IN  IF 1 < i /\ i < Len(name) THEN SubSeq(name, 1, i - 1) ELSE name
PathSuffix(p) ==
    LET name == PathName(p)
        i == RFind(name, Dot)
    IN  IF 1 < i /\ i < Len(name) THEN SubSeq(name, i, Len(name)) ELSE <<>>

\* os.path.dirname
DirName(p) == SubSeq(p, 1, RFind(p, Slash) - 1)

\* os.path.join(a, b)
Join(a, b) ==
    IF b # <<>> /\ b[1] = Slash THEN b
    ELSE IF a = <<>> \/ a[Len(a)] = Slash THEN a \o b
    ELSE a \o <<Slash>> \o b

\* os.path.isdir(p) with the directories ds
IsDir(p, ds) == p \in ds

\* p and the directories above it, up to the working directory
Ancestors(p) ==
    {SubSeq(p, 1, i - 1) : i \in {j \in 2..Len(p) : p[j] = Slash}} \cup {p}

FileExistsError(p) ==
    [type |-> "FileExistsError",
     msg |-> <<Lit("[Errno 17] File exists: "), Interp(p)>>]
NotADirectoryError(p) ==
    [type |-> "NotADirectoryError",
     msg |-> <<Lit("[Errno 20] Not a directory: "), Interp(p)>>]

\* os.makedirs(p, exist_ok=True) with the files d and the directories ds:
\* the directories after it, or the error; p = <<>> is the working directory
MakeDirs(p, d, ds) ==
    IF p = <<>> THEN Returned(ds)
    ELSE IF p \in DOMAIN d THEN Raised(FileExistsError(p))
    ELSE IF \E a \in Ancestors(p) : a \in DOMAIN d
    THEN Raised(NotADirectoryError(p))
    ELSE Returned(ds \cup Ancestors(p))

RecoveredSuffix == <<95, 114, 101, 99, 111, 118, 101, 114, 101, 100>>       \* "_recovered"

\* line 279
CleanExt(file_ext) ==
    IF EndsWith(file_ext, BinpngSuffix) THEN RemoveAll(file_ext, BinpngSuffix)
    ELSE file_ext

\* lines 284-285, 300-301, 304-305: f"{base_name}.{clean_ext}"
AutoName(input_duck_path, clean_ext) ==
    PathStem(input_duck_path) \o RecoveredSuffix \o <<Dot>> \o clean_ext

\* generate_output_path with the files d and the directories ds: what it
\* gives back and the directories after it; None and '' are both <<>>
generate_output_path(input_duck_path, file_ext, output_spec, output_dir, d, ds) ==
    LET clean_ext == CleanExt(file_ext)
        auto == AutoName(input_duck_path, clean_ext)
    IN  IF output_spec # <<>>
        THEN IF IsDir(output_spec, ds)
             THEN [res |-> Returned(Join(output_spec, auto)), dirs |-> ds]
             ELSE IF ~EndsWith(Lower(output_spec), Lower(clean_ext))
             THEN IF Contains(output_spec, <<Dot>>)
                  THEN [res |-> Returned(RSplitDot(output_spec) \o <<Dot>>
                                         \o clean_ext),
                        dirs |-> ds]
                  ELSE [res |-> Returned(output_spec \o <<Dot>> \o clean_ext),
                        dirs |-> ds]
             ELSE [res |-> Returned(output_spec), dirs |-> ds]
        ELSE IF output_dir # <<>>
        THEN LET m == MakeDirs(output_dir, d, ds)
             IN  IF ~m.ok THEN [res |-> m, dirs |-> ds]
                 ELSE [res |-> Returned(Join(output_dir, auto)), dirs |-> m.val]
        ELSE [res |-> Returned(auto), dirs |-> ds]

IsADirectoryError(p) ==
    [type |-> "IsADirectoryError",
     msg |-> <<Lit("[Errno 21] Is a directory: "), Interp(p)>>]

\* (variant: the output opened for writing before the conversion)
FilesAfterFailedConvertOpened(d, output_path) == WriteFile(d, output_path, <<>>)
\* lines 249-250: open(output_path, 'wb') comes after the conversion, so a
\* conversion that raises leaves the files as they were
FilesAfterFailedConvert(d, output_path) == d

\* lines 245-255 once the parent directory is there (the directories are
\* then ds): bytes is the outcome of the conversion, or the payload itself,
\* and conv the file operations of the conversion
SaveBytes(bytes, conv, output_path, d, ds) ==
    IF ~bytes.ok
    THEN [res |-> Raised(SaveError(bytes.exc)),
          disk |-> FilesAfterFailedConvert(d, output_path),
          dirs |-> ds, io |-> conv]
    ELSE IF output_path \in ds
    THEN [res |-> Raised(SaveError(IsADirectoryError(output_path))),
          disk |-> d, dirs |-> ds, io |-> conv \o <<"out_open">>]
    ELSE [res |-> Returned(<<>>), disk |-> WriteFile(d, output_path, bytes.val),
          dirs |-> ds, io |-> conv \o <<"out_open", "out_write">>]

\* lines 241-261 with mk the outcome of os.makedirs on the parent directory
SaveIn(mk, raw_data, file_ext, output_path, d, ds) ==
    IF ~mk.ok
    THEN [res |-> Raised(SaveError(mk.exc)), disk |-> d, dirs |-> ds, io |-> <<>>]
    ELSE IF IsBinpng(file_ext)
    THEN SaveBytes(binpng_bytes_to_video_data(raw_data),
                   <<"tmp_write", "tmp_open">>, output_path, d, mk.val)
    ELSE SaveBytes(Returned(raw_data), <<>>, output_path, d, mk.val)

\* save_extracted_data with the files d and the directories ds: what it
\* gives back, the files and the directories after it, and io, the file
\* operations it made: tmp_write and tmp_open on the temporary file of the
\* conversion, out_open and out_write on the output
save_extracted_data(raw_data, file_ext, output_path, d, ds) ==
    SaveIn(MakeDirs(DirName(output_path), d, ds), raw_data, file_ext,
           output_path, d, ds)

(***************************************************************************)
(* Direct calls of the functions of the module, one call per behaviour:    *)
(* the initial state holds the arguments, the step runs the function.      *)
(***************************************************************************)
\* bounds: the longest keystream asked for, the largest array given to
\* _extract_payload_with_k, the width of the images given to
\* binpng_bytes_to_video_data
MaxKeyLen == 321
MaxUnitH == 25
MaxUnitW == 5
MaxPngW == 2

Prefix(b, n) == SubSeq(b, 1, n)

\* the headers given to _parse_header: every header blob of the model and
\* every prefix of an unprotected and of a protected one
UnitHeaders ==
    {BlobAt(i) : i \in BlobIds}
    \cup {Prefix(BlobAt(1), n) : n \in 0..Len(BlobAt(1))}
    \cup {Prefix(BlobAt(3), n) : n \in 0..Len(BlobAt(3))}

UnitSalts == {<<>>, SaltA}
UnitKeyLens == {0, 1, 31, 32, 33, 64, 65, MaxKeyLen}

\* the arrays given to _extract_payload_with_k: h x w, the channels filled
\* from a seed
UnitHeights == {1, 2, 12, 13, MaxUnitH}
UnitWidths == {1, 2, 3, MaxUnitW, MaxUnitW + 1}
UnitSeeds == {0, 1}
UnitArray(h, w, seed) ==
    [r \in 1..h |-> [c \in 1..w |-> [ch \in 1..DUCK_CHANNELS |->
        (seed * 101 + r * 53 + c * 29 + ch * 7 + r * c * ch) % 256]]]

\* the files given to binpng_bytes_to_video_data: every 1 x MaxPngW image
\* of samples 0 and 7 in both colour types, and files Pillow refuses
PngBytes(colour_type, h, w, samples) ==
    PngSignature \o <<colour_type, h, w>> \o samples

SampleSeqs(n) == [1..n -> {0, 7}]

UnitPngs ==
    {PngBytes(2, 1, MaxPngW, sm) : sm \in SampleSeqs(MaxPngW * DUCK_CHANNELS)}
    \cup {PngBytes(0, 1, MaxPngW, sm) : sm \in SampleSeqs(MaxPngW)}
    \cup {<<>>, <<66, 77, 0, 0, 0, 0, 0>>, PngBytes(2, 1, MaxPngW, <<7, 0>>),
          PngBytes(2, 2, 1, <<0, 3, 0, 0, 9, 0>>)}

\* the calls of save_extracted_data
Mp4Binpng == <<109, 112, 52>> \o BinpngSuffix             \* "mp4.binpng"
UnitExts ==
    {Txt, <<>>, Mp4Binpng, BinpngSuffix, Tail(BinpngSuffix),
     BinpngSuffix \o <<46>> \o Txt,                        \* ".binpng.txt"
     <<109, 112, 52, 46, 66, 73, 78, 80, 78, 71>>}         \* "mp4.BINPNG"
UnitPayloads ==
    {<<>>, <<65, 0, 66, 0>>, PngBytes(2, 1, 2, <<0, 5, 0, 6, 0, 0>>),
     PngBytes(2, 1, 2, <<5>>)}
OutFile == <<111, 46, 98, 105, 110>>                      \* "o.bin"
UnitOutputs == {OutFile, OutDir}

\* the calls of generate_output_path
Mp4 == <<109, 112, 52>>                                     \* "mp4"
GenInputs == {<<100, 49, 46, 112, 110, 103>>, <<105, 110, 47, 97, 46, 98, 46, 112, 110, 103>>}
                                              \* "d1.png", "in/a.b.png"
GenExts == {Mp4, Mp4Binpng, Txt, <<>>}
GenOutputs ==
    {<<>>, OutDir,
     <<99, 108, 105, 112, 46, 109, 112, 52>>,          \* "clip.mp4"
     <<99, 108, 105, 112, 46, 116, 120, 116>>,          \* "clip.txt"
     <<67, 76, 73, 80, 46, 77, 80, 52>>,          \* "CLIP.MP4"
     <<99, 108, 105, 112>>,          \* "clip"
     <<99, 108, 105, 112, 109, 112, 52>>,          \* "clipmp4"
     <<111, 117, 116, 46, 100, 47, 99, 108, 105, 112>>}          \* "out.d/clip"
GenDirs == {<<>>, OutDir, <<110, 101, 119, 47, 115, 117, 98>>}      \* "new/sub"

UnitCall(fn, arg) ==
    [fn |-> fn, arg |-> arg, done |-> FALSE, res |-> <<>>, trace |-> <<>>]

UnitInit ==
    /\ pc = "idle"
    /\ image_path = <<>>
    /\ password = <<>>
    /\ arr = <<>>
    /\ ki = 1
    /\ raw = <<>>
    /\ last_err = <<>>
    /\ outcome = <<>>
    /\ attempts = <<>>
    /\ disk = NoFiles
    /\ dirs = Directories
    /\ dec = NoDecode
    /\ wait = NoWait
    /\ \/ \E h \in UnitHeaders, pw \in Passwords :
            unit = UnitCall("_parse_header", [header |-> h, password |-> pw])
       \/ \E pw \in Passwords, st \in UnitSalts, n \in UnitKeyLens :
            unit = UnitCall("_generate_key_stream",
                            [password |-> pw, salt |-> st, length |-> n])
       \/ \E h \in UnitHeights, w \in UnitWidths, sd \in UnitSeeds,
             i \in 1..Len(Depths) :
            unit = UnitCall("_extract_payload_with_k",
                            [arr |-> UnitArray(h, w, sd), k |-> Depths[i]])
       \/ \E b \in UnitPngs :
            unit = UnitCall("binpng_bytes_to_video_data", [png_bytes |-> b])
       \/ \E d \in UnitPayloads, e \in UnitExts, o \in UnitOutputs :
            unit = UnitCall("save_extracted_data",
                            [raw_data |-> d, file_ext |-> e, output_path |-> o])
       \/ \E i \in GenInputs, e \in GenExts, o \in GenOutputs, od \in GenDirs :
            unit = UnitCall("generate_output_path",
                            [input_duck_path |-> i, file_ext |-> e,
                             output_spec |-> o, output_dir |-> od])

Pending(fn) == unit.fn = fn /\ ~unit.done

UnitFrame ==
    UNCHANGED <<pc, image_path, password, arr, ki, raw, last_err, outcome,
                attempts, dec, wait>>

\* _parse_header(header, password); trace: what was given to hashlib.sha256
RunParseHeader ==
    /\ Pending("_parse_header")
    /\ unit' = [unit EXCEPT
                  !.done = TRUE,
                  !.res = parse_header(unit.arg.header, unit.arg.password),
                  !.trace = parse_header_hashed(unit.arg.header,
                                                unit.arg.password)]
    /\ UNCHANGED <<disk, dirs>>
    /\ UnitFrame

\* _generate_key_stream(password, salt, length); trace: what was given to
\* hashlib.sha256
RunKeyStream ==
    /\ Pending("_generate_key_stream")
    /\ unit' = [unit EXCEPT
                  !.done = TRUE,
                  !.res = generate_key_stream(unit.arg.password, unit.arg.salt,
                                              unit.arg.length),
                  !.trace = KeyStreamHashed(
                                KeyMaterial(unit.arg.password, unit.arg.salt),
                                unit.arg.length, 0, 0)]
    /\ UNCHANGED <<disk, dirs>>
    /\ UnitFrame

\* _extract_payload_with_k(arr, k); trace: the locals idxs and bits
RunExtractPayload ==
    /\ Pending("_extract_payload_with_k")
    /\ unit' = [unit EXCEPT
                  !.done = TRUE,
                  !.res = extract_payload_with_k(unit.arg.arr, unit.arg.k),
                  !.trace = [idxs |-> Idxs(unit.arg.arr),
                             bits |-> ExtractBits(unit.arg.arr, unit.arg.k)]]
    /\ UNCHANGED <<disk, dirs>>
    /\ UnitFrame

\* binpng_bytes_to_video_data(png_bytes)
RunBinpng ==
    /\ Pending("binpng_bytes_to_video_data")
    /\ unit' = [unit EXCEPT
                  !.done = TRUE,
                  !.res = binpng_bytes_to_video_data(unit.arg.png_bytes)]
    /\ UNCHANGED <<disk, dirs>>
    /\ UnitFrame

\* the call returns or raises r.res and leaves the files r.disk and the
\* directories r.dirs
UnitDone(r) ==
    /\ unit' = [unit EXCEPT !.done = TRUE, !.res = r.res]
    /\ disk' = r.disk
    /\ dirs' = r.dirs

\* save_extracted_data(raw_data, file_ext, output_path)
RunSave ==
    /\ Pending("save_extracted_data")
    /\ UnitDone(save_extracted_data(unit.arg.raw_data, unit.arg.file_ext,
                                    unit.arg.output_path, disk, dirs))
    /\ UnitFrame

\* generate_output_path(input_duck_path, file_ext, output_spec, output_dir)
RunGenerate ==
    /\ Pending("generate_output_path")
    /\ UnitDone([disk |-> disk] @@ generate_output_path(
                     unit.arg.input_duck_path, unit.arg.file_ext,
                     unit.arg.output_spec, unit.arg.output_dir, disk, dirs))
    /\ UnitFrame

UnitNext ==
    \/ RunParseHeader
    \/ RunKeyStream
    \/ RunExtractPayload
    \/ RunBinpng
    \/ RunSave
    \/ RunGenerate

UnitSpec == UnitInit /\ [][UnitNext]_vars

(***************************************************************************)
(* Properties of the direct calls.                                         *)
(***************************************************************************)
Ran(fn) == unit.fn = fn /\ unit.done

\* the header of a direct call of _parse_header holds every field of the
\* layout and a data segment of the declared length
WholeBlob(blob) == FmtStructured(blob) /\ FmtRest(blob) = FmtDl(blob)

\* the hash and the salt stored in a blob whose flag is 1
FmtHash(blob) == SubSeq(blob, 2, 33)
FmtSalt(blob) == SubSeq(blob, 34, 49)
FmtData(blob) == SubSeq(blob, FmtDlPos(blob) + 4, Len(blob))
FmtExt(blob) ==
    Utf8DecodeIgnore(SubSeq(blob, FmtElPos(blob) + 1, FmtElPos(blob) + FmtEl(blob)))

\* C11: a header in which a field of the layout would run past the end (an
\* empty header, a flag of 1 with fewer than 1 + 32 + 16 bytes, no extension
\* length byte, or fewer bytes than the extension and the 4-byte data length
\* need) makes _parse_header raise "Header corrupted".
C11_HeaderCorrupt ==
    (Ran("_parse_header") /\ ~FmtStructured(unit.arg.header))
        => unit.res = Raised(ValueError(MsgHeaderCorrupt))

\* a protected header that stops inside the data length field was refused
C11_Witness ==
    /\ Ran("_parse_header")
    /\ unit.arg.header = Prefix(BlobAt(3), Len(BlobAt(3)) - 4)
    /\ FmtHasPwd(unit.arg.header)
    /\ Len(unit.arg.header) = FmtDlPos(unit.arg.header) + 2
    /\ unit.res = Raised(ValueError(MsgHeaderCorrupt))

\* C12: with the flag set and an empty password nothing is ever given to
\* SHA-256, and when the header is whole the call raises "Password
\* required".
C12_PasswordRequiredFirst ==
    (/\ Ran("_parse_header")
     /\ unit.arg.password = <<>>
     /\ Len(unit.arg.header) >= 1
     /\ FmtHasPwd(unit.arg.header))
        => /\ unit.trace = <<>>
           /\ WholeBlob(unit.arg.header)
                  => unit.res = Raised(ValueError(MsgPasswordRequired))

\* a whole protected header was parsed with no password
C12_Witness ==
    /\ Ran("_parse_header")
    /\ unit.arg.password = <<>>
    /\ unit.arg.header = BlobAt(4)
    /\ WholeBlob(unit.arg.header)
    /\ unit.res = Raised(ValueError(MsgPasswordRequired))

\* C13: with the flag set, a whole header and a non-empty password, the call
\* raises "Wrong password" exactly when SHA256(password ++ hex(salt)) is not
\* the stored hash; it returns data when the hashes are equal and raises
\* when they differ.
C13_WrongPasswordIff ==
    (/\ Ran("_parse_header")
     /\ unit.arg.password # <<>>
     /\ WholeBlob(unit.arg.header)
     /\ FmtHasPwd(unit.arg.header))
        => LET verify == Sha256(Utf8Encode(unit.arg.password)
                                \o Utf8Encode(Hex(FmtSalt(unit.arg.header))))
               differs == verify # FmtHash(unit.arg.header)
           IN  /\ (unit.res = Raised(ValueError(MsgWrongPassword))) <=> differs
               /\ unit.res.ok <=> ~differs

\* the password a blob was protected with, one with a two-byte code point,
\* was accepted
C13_Witness ==
    /\ Ran("_parse_header")
    /\ unit.arg.header = BlobAt(5)
    /\ unit.arg.password = Other
    /\ unit.res.ok
    /\ unit.res.val[1] = Orig(5).plain

\* C14: with the flag not set and a whole header, the call returns the data
\* segment as it is stored, and the extension, whatever password is given,
\* and gives nothing to SHA-256.
C14_PlainAsIs ==
    (/\ Ran("_parse_header")
     /\ WholeBlob(unit.arg.header)
     /\ ~FmtHasPwd(unit.arg.header))
        => /\ unit.res = Returned(<<FmtData(unit.arg.header),
                                    FmtExt(unit.arg.header)>>)
           /\ unit.trace = <<>>

\* an unprotected header was parsed with a password supplied
C14_Witness ==
    /\ Ran("_parse_header")
    /\ unit.arg.header = BlobAt(1)
    /\ unit.arg.password = Secret
    /\ unit.res = Returned(<<(<<65>>), Txt>>)

\* a counter below 100 in decimal ASCII
AsciiDecimal(n) == IF n < 10 THEN <<48 + n>> ELSE <<48 + (n \div 10), 48 + (n % 10)>>

\* C15: _generate_key_stream(password, salt, length) returns the first
\* `length` bytes of H(km ++ "0") ++ H(km ++ "1") ++ ..., km being the
\* password followed by the hexadecimal salt; it hashes exactly
\* ceil(length / 32) blocks, numbered from 0 in decimal; and a second call
\* with the same arguments returns the same bytes.
C15_KeyStream ==
    Ran("_generate_key_stream") =>
        LET a == unit.arg
            km == Utf8Encode(a.password) \o Utf8Encode(Hex(a.salt))
            blocks == (a.length + 31) \div 32
            block == [j \in 1..blocks |-> Sha256(km \o AsciiDecimal(j - 1))]
        IN  /\ Len(unit.res) = a.length
            /\ \A i \in 1..a.length :
                   unit.res[i] = block[((i - 1) \div 32) + 1][((i - 1) % 32) + 1]
            /\ Len(unit.trace) = blocks
            /\ \A j \in 1..blocks : unit.trace[j] = km \o AsciiDecimal(j - 1)
            /\ generate_key_stream(a.password, a.salt, a.length) = unit.res

\* a keystream of one byte more than a block was made from a password with
\* a two-byte code point
C15_Witness ==
    /\ Ran("_generate_key_stream")
    /\ unit.arg = [password |-> Other, salt |-> SaltA, length |-> 33]
    /\ Len(unit.res) = 33
    /\ Len(unit.trace) = 2

\* the 0-based pixels (row, column) whose channels are among flat indices
PixelsOf(idxs, w) ==
    {<<idxs[j] \div (w * 3), (idxs[j] % (w * 3)) \div 3>> : j \in 1..Len(idxs)}

\* C16: the pixels left out of the extraction are those of rows below
\* floor(0.08 H) and columns below floor(0.40 W), and only when both numbers
\* are positive; with H < 13 or W < 3 nothing is left out; and the indices
\* extracted are those of any other array of the same dimensions.
C16_Mask ==
    Ran("_extract_payload_with_k") =>
        LET a == unit.arg.arr
            h == Len(a)
            w == Len(a[1])
            sh == (8 * h) \div 100
            sw == (40 * w) \div 100
            all == (0..(h - 1)) \X (0..(w - 1))
            out == IF sh > 0 /\ sw > 0
                   THEN {p \in all : p[1] < sh /\ p[2] < sw}
                   ELSE {}
            idxs == unit.trace.idxs
        IN  /\ PixelsOf(idxs, w) = all \ out
            /\ Len(idxs) = 3 * Cardinality(all \ out)
            /\ (h < 13 \/ w < 3) => out = {}
            /\ idxs = Idxs([r \in 1..h |-> [c \in 1..w |-> <<0, 0, 0>>]])

\* an array of 13 rows and more than 4 columns lost the first two pixels of
\* its first row
C16_Witness ==
    /\ Ran("_extract_payload_with_k")
    /\ Len(unit.arg.arr) = 13
    /\ Len(unit.arg.arr[1]) = 5
    /\ Len(unit.trace.idxs) = 3 * (13 * 5 - 2)
    /\ unit.trace.idxs[1] = 6

\* the 0-based pixels of an h x w image outside the watermark rectangle
Eligible(h, w) ==
    LET sh == (8 * h) \div 100
        sw == (40 * w) \div 100
    IN  {p \in (0..(h - 1)) \X (0..(w - 1)) : ~(sh > 0 /\ sw > 0 /\ p[1] < sh /\ p[2] < sw)}

\* pixel p comes before pixel q in row-major order
RowMajorBefore(p, q) == p[1] < q[1] \/ (p[1] = q[1] /\ p[2] < q[2])

\* C17: at depth k the bit stream has k * 3 * (number of eligible pixels)
\* bits; the k bits of channel ch (R, G, B = 0, 1, 2) of the eligible pixel
\* that has n eligible pixels before it in row-major order start after
\* (3 n + ch) k bits and are the k low bits of the channel value, the most
\* significant of them first.
C17_BitOrder ==
    Ran("_extract_payload_with_k") =>
        LET a == unit.arg.arr
            k == unit.arg.k
            el == Eligible(Len(a), Len(a[1]))
            bits == unit.trace.bits
        IN  /\ Len(bits) = k * 3 * Cardinality(el)
            /\ \A p \in el :
                 LET n == Cardinality({q \in el : RowMajorBefore(q, p)})
                 IN  \A ch \in 0..2, b \in 0..(k - 1) :
                        bits[(3 * n + ch) * k + b + 1]
                            = (a[p[1] + 1][p[2] + 1][ch + 1] \div Pow2(k - 1 - b)) % 2

\* a masked array was read at depth 6, where the low bits of its first
\* eligible channel are not a palindrome
C17_Witness ==
    /\ Ran("_extract_payload_with_k")
    /\ unit.arg.k = 6
    /\ Len(unit.arg.arr) = 13
    /\ Len(unit.arg.arr[1]) = 3
    /\ Len(unit.trace.bits) = 6 * 3 * 38
    /\ SubSeq(unit.trace.bits, 1, 6) # [i \in 1..6 |-> unit.trace.bits[7 - i]]

\* C18: _extract_payload_with_k raises "Insufficient image data" when the
\* stream it extracted has fewer than 32 bits, and never when it has 32 or
\* more.
C18_InsufficientData ==
    Ran("_extract_payload_with_k") =>
        ((Len(unit.trace.bits) < 32)
            <=> unit.res = Raised(ValueError(MsgInsufficient)))

\* a stream of 30 bits was refused
C18_Witness ==
    /\ Ran("_extract_payload_with_k")
    /\ Len(unit.trace.bits) = 30
    /\ unit.res = Raised(ValueError(MsgInsufficient))

\* the flattened RGB buffer of an image file that Pillow opens: the samples
\* of an RGB file, each sample of a grey file three times
PngFlat(png_bytes) ==
    LET n == png_bytes[6] * png_bytes[7] * PngChannels(png_bytes[5])
        samples == SubSeq(png_bytes, 8, 7 + n)
    IN  IF png_bytes[5] = 2 THEN samples
        ELSE [i \in 1..(3 * n) |-> samples[((i - 1) \div 3) + 1]]

\* the position of the last non-zero byte, 0 if there is none
LastNonZero(b) ==
    IF \A i \in 1..Len(b) : b[i] = 0 THEN 0
    ELSE CHOOSE i \in 1..Len(b) : b[i] # 0 /\ \A j \in (i + 1)..Len(b) : b[j] = 0

\* C19: binpng_bytes_to_video_data returns the flattened pixel buffer up to
\* and including its last non-zero byte: zero bytes before it are kept, the
\* zero bytes after it are dropped, and the result is empty or ends with a
\* non-zero byte.
C19_TrailingZerosOnly ==
    (Ran("binpng_bytes_to_video_data") /\ unit.res.ok) =>
        LET flat == PngFlat(unit.arg.png_bytes)
            out == unit.res.val
        IN  /\ out = SubSeq(flat, 1, LastNonZero(flat))
            /\ out = <<>> \/ out[Len(out)] # 0

\* a buffer with zero bytes inside and zero bytes at its end was cut after
\* its last non-zero byte
C19_Witness ==
    /\ Ran("binpng_bytes_to_video_data")
    /\ unit.arg.png_bytes = PngBytes(2, 1, 2, <<7, 0, 0, 7, 0, 0>>)
    /\ unit.res = Returned(<<7, 0, 0, 7>>)

\* the extension ends with the seven characters ".binpng"
Marked(file_ext) ==
    /\ Len(file_ext) >= 7
    /\ [i \in 1..7 |-> file_ext[Len(file_ext) - 7 + i]] = BinpngSuffix

\* C20: save_extracted_data converts the payload only when the extension
\* ends with ".binpng".  For any other extension every file written holds
\* the payload itself, and the output file is written unless the path cannot
\* be opened.  For a marked extension the output file holds the converted
\* bytes, or nothing is written when the conversion fails.
C20_ConvertOnlyMarked ==
    Ran("save_extracted_data") =>
        LET a == unit.arg
            video == binpng_bytes_to_video_data(a.raw_data)
            writable == a.output_path \notin Directories
            written == IF Marked(a.file_ext) THEN video.val ELSE a.raw_data
        IN  IF Marked(a.file_ext) /\ ~video.ok
            THEN ~unit.res.ok /\ DOMAIN disk = {}
            ELSE /\ \A q \in DOMAIN disk : disk[q] = written
                 /\ writable => (unit.res.ok /\ DOMAIN disk = {a.output_path})
                 /\ ~writable => (~unit.res.ok /\ DOMAIN disk = {})

\* a payload that is an image file was saved as it is under an extension
\* that holds the marker but does not end with it
C20_Witness ==
    /\ Ran("save_extracted_data")
    /\ unit.arg.file_ext = BinpngSuffix \o <<46>> \o Txt
    /\ unit.arg.raw_data = PngBytes(2, 1, 2, <<0, 5, 0, 6, 0, 0>>)
    /\ binpng_bytes_to_video_data(unit.arg.raw_data).val # unit.arg.raw_data
    /\ unit.res.ok
    /\ disk[OutFile] = unit.arg.raw_data

(***************************************************************************)
(* validate_duck_image and decode_duck_image.  NumProcs calls run side by  *)
(* side, each with its own locals, on one file system: the files written   *)
(* (disk) and the directories (dirs).  The images read are the files       *)
(* File(n); no call writes a file with an image suffix, so an image that   *)
(* is opened is always one of them.                                        *)
(***************************************************************************)
NumProcs == 2
Procs == 1..NumProcs

FileNotFoundError(msg) == [type |-> "FileNotFoundError", msg |-> msg]

InputPaths == {PathOf(n) : n \in FileIds \cup MarkedFileIds}

\* line 192: ['.png', '.jpg', '.jpeg']
ImageSuffixes == {<<46, 112, 110, 103>>, <<46, 106, 112, 103>>, <<46, 106, 112, 101, 103>>}

\* path.exists()
Exists(path, d, ds) ==
    \/ path \in DOMAIN d
    \/ path \in ds
    \/ path \in InputPaths /\ FileAt(path).kind # "missing"

\* lines 196-199: Image.open reads the header only; the pixel data is read by
\* img.convert('RGB'), which is called for a mode other than RGB
OpenToValidate(img_path) ==
    LET f == FileAt(img_path)
    IN  CASE f.kind = "image" -> Returned(TRUE)
          [] f.kind = "truncated" ->
                IF f.mode # "RGB"
                THEN Raised(OSError(<<Lit("image file is truncated")>>))
                ELSE Returned(TRUE)
          [] OTHER ->
                Raised(OSError(<<Lit("cannot identify image file "),
                                 Interp(img_path)>>))

\* validate_duck_image with the files d and the directories ds: what it gives
\* back and io, the file operations it made
validate_duck_image(img_path, d, ds) ==
    IF ~Exists(img_path, d, ds)
    THEN [res |-> Raised(FileNotFoundError(<<Lit("Duck image not found: "),
                                             Interp(img_path)>>)),
          io |-> <<>>]
    ELSE IF img_path \in ds
    THEN [res |-> Raised(ValueError(<<Lit("Path is not a file: "),
                                      Interp(img_path)>>)),
          io |-> <<>>]
    ELSE IF Lower(PathSuffix(img_path)) \notin ImageSuffixes
    THEN [res |-> Raised(ValueError(<<Lit("Duck image must be PNG/JPG format: "),
                                      Interp(img_path)>>)),
          io |-> <<>>]
    ELSE LET o == OpenToValidate(img_path)
         IN  [res |-> IF o.ok THEN Returned(TRUE)
                      ELSE Raised(ValueError(<<Lit("Invalid image file: ")>>
                                             \o StrOf(o.exc))),
              io |-> <<"open_input">>]

\* lines 324-330: the result dict; None is <<>>
NoResult ==
    [success |-> FALSE, output_path |-> <<>>, file_type |-> <<>>,
     data_size |-> 0, error |-> <<>>]

\* a call decode_duck_image(duck_path, password, output, output_dir) at its
\* entry; raw_data, file_ext and output_path are its locals, unset
DecodeCall(duck_path, pw, output, output_dir) ==
    [pc |-> "validate", duck_path |-> duck_path, password |-> pw,
     output |-> output, output_dir |-> output_dir, raw_data |-> <<>>,
     file_ext |-> <<>>, output_path |-> <<>>, result |-> NoResult, io |-> <<>>]

\* (variant: the path computed so far is reported with the error)
FailedWithPath(c, e, io) ==
    [c EXCEPT !.pc = "done", !.io = c.io \o io,
              !.result = [c.result EXCEPT !.error = <<StrOf(e)>>,
                                          !.output_path = c.output_path]]
\* lines 370-375: except Exception as e: result['error'] = str(e)
Failed(c, e, io) ==
    [c EXCEPT !.pc = "done", !.io = c.io \o io,
              !.result = [c.result EXCEPT !.error = <<StrOf(e)>>]]

\* (variant: the image kept in a module-level variable set by the first call)
SharedImage(c, all) ==
    IF all[1].duck_path \in InputPaths THEN all[1].duck_path ELSE c.duck_path
\* line 345: extract_with_fallback(duck_path, password), the call's own
\* argument
CallImage(c, all) == c.duck_path

\* (variant: a read that fails is tried once more)
OpensOnLoadRetry(r) ==
    IF r.ok THEN <<"open_input">> ELSE <<"open_input", "open_input">>
\* lines 147-150: Image.open(img_path) once, whatever comes of it
OpensOnLoad(r) == <<"open_input">>

\* line 338: after validate_duck_image gave v
Validated(c, v) ==
    IF v.res.ok THEN [c EXCEPT !.pc = "extract", !.io = c.io \o v.io]
    ELSE Failed(c, v.res.exc, v.io)

\* line 345: after extract_with_fallback gave x, having made the file
\* operations io
Extracted(c, x, io) ==
    IF x.ok
    THEN [c EXCEPT !.pc = "generate", !.raw_data = <<x.val[1]>>,
                   !.file_ext = <<x.val[2]>>, !.io = c.io \o io]
    ELSE Failed(c, x.exc, io)

\* line 354: after generate_output_path gave g
Generated(c, g) ==
    [c |-> IF g.res.ok
           THEN [c EXCEPT !.pc = "save", !.output_path = <<g.res.val>>]
           ELSE Failed(c, g.res.exc, <<>>),
     dirs |-> g.dirs]

\* lines 361-368: after save_extracted_data gave sv
Saved(c, sv) ==
    [c |-> IF sv.res.ok
           THEN [c EXCEPT !.pc = "done", !.io = c.io \o sv.io,
                          !.result = [success |-> TRUE,
                                      output_path |-> c.output_path,
                                      file_type |-> c.file_ext,
                                      data_size |-> Len(c.raw_data[1]),
                                      error |-> <<>>]]
           ELSE Failed(c, sv.res.exc, sv.io),
     disk |-> sv.disk, dirs |-> sv.dirs]

ExtractFrom(c, img) ==
    Extracted(c, ExtractOutcome(img, c.password), OpensOnLoad(LoadRGB(img)))

WithFiles(cd, d) == [c |-> cd.c, disk |-> d, dirs |-> cd.dirs]

\* one step of a call c among the calls all, on the files d and the
\* directories ds: validation, extraction, the output path, the save and the
\* return
DecodeStep(c, all, d, ds) ==
    CASE c.pc = "validate" ->
           [c |-> Validated(c, validate_duck_image(c.duck_path, d, ds)),
            disk |-> d, dirs |-> ds]
      [] c.pc = "extract" ->
           [c |-> ExtractFrom(c, CallImage(c, all)), disk |-> d, dirs |-> ds]
      [] c.pc = "generate" ->
           WithFiles(Generated(c, generate_output_path(
                                      c.duck_path, c.file_ext[1], c.output,
                                      c.output_dir, d, ds)), d)
      [] c.pc = "save" ->
           Saved(c, save_extracted_data(c.raw_data[1], c.file_ext[1],
                                        c.output_path[1], d, ds))
      [] OTHER -> [c |-> c, disk |-> d, dirs |-> ds]

\* decode_duck_image run from entry to return with no other call: the result
\* dict it returns
RECURSIVE DecodeToEnd(_, _, _)
DecodeOn(st) == DecodeToEnd(st.c, st.disk, st.dirs)
DecodeToEnd(c, d, ds) ==
    IF c.pc = "done" THEN c.result
    ELSE DecodeOn(DecodeStep(c, <<c>>, d, ds))

decode_duck_image(duck_path, pw, output, output_dir, d, ds) ==
    DecodeToEnd(DecodeCall(duck_path, pw, output, output_dir), d, ds)

\* the images decoded: a 2 x 2 carrier with a one-byte text payload at depth
\* 8, the two carriers with a marked payload, a carrier too small for a
\* length prefix, a grey-scale file, a file cut short, a file that is no
\* image, and a path that does not exist
SmallPng == PathOf(NumEncoded + 5)
TinyPng == PathOf(NumEncoded + 7)
GreyPng == PathOf(NumEncoded + 8)
TruncatedPng == PathOf(NumEncoded + 9)
NotImagePng == PathOf(NumEncoded + 10)
MissingPng == PathOf(NumEncoded + 11)
MarkedPng == PathOf(NumEncoded + 13)
MarkedBadPng == PathOf(NumEncoded + 14)

NewDir == <<110, 101, 119>>                                  \* "new"
NewT == <<110, 101, 119, 46, 116>>                            \* "new.t"
ClipAvi == <<99, 108, 105, 112, 46, 97, 118, 105>>       \* "clip.avi"

DecodeCalls ==
    {DecodeCall(SmallPng, <<>>, <<>>, <<>>),
     DecodeCall(SmallPng, <<>>, <<>>, NewDir),
     DecodeCall(SmallPng, Secret, NewDir, <<>>),
     DecodeCall(SmallPng, <<>>, <<>>, NewT),
     DecodeCall(SmallPng, <<>>, OutDir, <<>>),
     DecodeCall(MarkedPng, <<>>, ClipAvi, <<>>),
     DecodeCall(MarkedPng, <<>>, <<>>, <<>>),
     DecodeCall(MarkedBadPng, <<>>, <<>>, OutDir),
     DecodeCall(TinyPng, <<>>, <<>>, <<>>),
     DecodeCall(GreyPng, <<>>, <<>>, <<>>),
     DecodeCall(TruncatedPng, <<>>, <<>>, <<>>),
     DecodeCall(NotImagePng, <<>>, <<>>, <<>>),
     DecodeCall(MissingPng, <<>>, <<>>, <<>>),
     DecodeCall(OutDir, <<>>, <<>>, <<>>)}

\* the calls that run beside the first one: they create directories and
\* files, one of them fails in its save
BesideCalls ==
    {DecodeCall(SmallPng, <<>>, <<>>, NewDir),
     DecodeCall(SmallPng, <<>>, <<>>, NewT),
     DecodeCall(MarkedPng, <<>>, ClipAvi, <<>>),
     DecodeCall(MarkedBadPng, <<>>, <<>>, OutDir)}

DecodeInit ==
    /\ pc = "idle"
    /\ image_path = <<>>
    /\ password = <<>>
    /\ arr = <<>>
    /\ ki = 1
    /\ raw = <<>>
    /\ last_err = <<>>
    /\ outcome = <<>>
    /\ attempts = <<>>
    /\ unit = NoCall
    /\ wait = NoWait
    /\ disk = NoFiles
    /\ dirs = Directories
    /\ dec \in {f \in [Procs -> DecodeCalls] : \A p \in Procs \ {1} : f[p] \in BesideCalls}

\* the step st of call p takes effect
Stepped(p, st) ==
    /\ dec' = [dec EXCEPT ![p] = st.c]
    /\ disk' = st.disk
    /\ dirs' = st.dirs

\* what the calls leave alone
DecodeFrame ==
    UNCHANGED <<pc, image_path, password, arr, ki, raw, last_err, outcome,
                attempts, unit, wait>>

\* line 338: a call validates its image
DecodeValidate ==
    \E p \in Procs :
        /\ dec[p].pc = "validate"
        /\ Stepped(p, DecodeStep(dec[p], dec, disk, dirs))
        /\ DecodeFrame

\* line 345: a call extracts the payload
DecodeExtract ==
    \E p \in Procs :
        /\ dec[p].pc = "extract"
        /\ Stepped(p, DecodeStep(dec[p], dec, disk, dirs))
        /\ DecodeFrame

\* line 354: a call computes its output path
DecodeGenerate ==
    \E p \in Procs :
        /\ dec[p].pc = "generate"
        /\ Stepped(p, DecodeStep(dec[p], dec, disk, dirs))
        /\ DecodeFrame

\* lines 361-368: a call saves the payload and returns
DecodeSave ==
    \E p \in Procs :
        /\ dec[p].pc = "save"
        /\ Stepped(p, DecodeStep(dec[p], dec, disk, dirs))
        /\ DecodeFrame

DecodeNext ==
    \/ DecodeValidate
    \/ DecodeExtract
    \/ DecodeGenerate
    \/ DecodeSave

DecodeSpec == DecodeInit /\ [][DecodeNext]_vars

(***************************************************************************)
(* RunningHubClient.wait_for_completion (client.py).  One call per         *)
(* behaviour.  Time is counted in ticks (seconds); a status request takes  *)
(* 0 or 1 tick and time.sleep(poll_interval) takes poll_interval ticks.    *)
(* The server answers the polls with the codes of script, one per poll,    *)
(* and with 804 (running) from then on; odd tells whether the number of    *)
(* polls made so far is odd.                                               *)
(***************************************************************************)
MaxTimeout == 3
MaxScript == 2

\* time.time() - start_time, kept exact up to MaxTimeout + 1: every timeout
\* of the calls is below that, so each comparison with it is the code's
Elapsed(t) == IF t > MaxTimeout THEN MaxTimeout + 1 ELSE t

CodeDone == 0
CodeRunning == 804
CodeQueuing == 813
CodeFailed == 805
CodeOther == 999
RequestFails == -1          \* get_task_status raises requests.RequestException
Responses == {CodeDone, CodeRunning, CodeQueuing, CodeFailed, CodeOther, RequestFails}

WaitTimeouts == {<<>>} \cup {<<t>> : t \in 0..MaxTimeout}     \* <<>> is None
PollIntervals == {1, 2}
RequestTicks == {0, 1}
Scripts == UNION {[1..n -> Responses] : n \in 0..MaxScript}

TimeoutError(timeout) ==
    [type |-> "TimeoutError",
     msg |-> <<Lit("Task did not complete within "), Interp(timeout),
               Lit(" seconds")>>]
TaskFailed == [type |-> "Exception", msg |-> <<Lit("Task failed: ")>>]
UnknownStatus(code) ==
    [type |-> "Exception", msg |-> <<Lit("Unknown status code: "), Interp(code)>>]
RequestException == [type |-> "requests.RequestException", msg |-> <<>>]

\* (variant: the timeout tested against None)
TimeoutSet(timeout) == timeout # <<>>
\* line 262: `if timeout and ...`: None and 0 are both false
TimeoutGiven(timeout) == timeout # <<>> /\ timeout[1] # 0

\* lines 243-267: one turn of the loop of a call w, the request taking d ticks
\* and answered with code
LoopTurn(w, code, d) ==
    LET now == Elapsed(w.elapsed + d)
        polled == [w EXCEPT !.last = <<code>>,
                            !.odd = ~w.odd,
                            !.script = IF w.script = <<>> THEN <<>>
                                       ELSE Tail(w.script),
                            !.elapsed = now]
    IN  IF code = RequestFails
        THEN [polled EXCEPT !.pc = "raised", !.res = <<RequestException>>]
        ELSE IF code = CodeDone
        THEN [polled EXCEPT !.pc = "returned", !.res = <<code>>]
        ELSE IF code \in {CodeRunning, CodeQueuing}
        THEN IF TimeoutGiven(w.timeout) /\ now > w.timeout[1]
             THEN [polled EXCEPT !.pc = "raised",
                                 !.res = <<TimeoutError(w.timeout[1])>>]
             ELSE [polled EXCEPT !.elapsed = Elapsed(now + w.poll_interval)]
        ELSE IF code = CodeFailed
        THEN [polled EXCEPT !.pc = "raised", !.res = <<TaskFailed>>]
        ELSE [polled EXCEPT !.pc = "raised", !.res = <<UnknownStatus(code)>>]

\* the answer of the server to the next poll
Answer(w) == IF w.script = <<>> THEN CodeRunning ELSE Head(w.script)

WaitInit ==
    /\ pc = "idle"
    /\ image_path = <<>>
    /\ password = <<>>
    /\ arr = <<>>
    /\ ki = 1
    /\ raw = <<>>
    /\ last_err = <<>>
    /\ outcome = <<>>
    /\ attempts = <<>>
    /\ unit = NoCall
    /\ disk = NoFiles
    /\ dirs = NoDirs
    /\ dec = NoDecode
    /\ \E t \in WaitTimeouts, p \in PollIntervals, sc \in Scripts :
          wait = [pc |-> "polling", timeout |-> t, poll_interval |-> p,
                  script |-> sc, elapsed |-> 0, last |-> <<>>, odd |-> FALSE,
                  res |-> <<>>]

\* one turn of the `while True` of line 243
Poll ==
    /\ wait.pc = "polling"
    /\ \E d \in RequestTicks : wait' = LoopTurn(wait, Answer(wait), d)
    /\ UNCHANGED <<pc, image_path, password, arr, ki, raw, last_err, outcome,
                   attempts, unit, disk, dirs, dec>>

WaitNext == Poll

\* the thread of the call keeps running: a turn that can be taken is taken
WaitSpec == WaitInit /\ [][WaitNext]_vars /\ WF_vars(Poll)

(***************************************************************************)
(* Further properties of extract_with_fallback.                            *)
(***************************************************************************)
\* the parts of a message
PartsOf(msg) == {msg[j] : j \in 1..Len(msg)}

\* C27: extraction never changes the pixel array: while a call holds an
\* array it is the one read from the file.  The result of the latest
\* attempt is the result of the pipeline at its depth on that array,
\* whatever was attempted before, and nothing is held as extracted data
\* (raw) unless an attempt has succeeded, in which case it is that attempt's
\* result.
C27_NoTraceOfFailure ==
    (pc \in {"loop", "returned", "raised"} /\ arr # <<>>) =>
        /\ arr = LoadRGB(image_path).val
        /\ attempts # <<>> =>
               LastAttempt.res = Attempt(arr, LastAttempt.k, password)
        /\ (\A i \in 1..Len(attempts) : ~attempts[i].res.ok) => raw = <<>>
        /\ raw # <<>> => (LastAttempt.res.ok /\ raw = <<LastAttempt.res.val>>)

\* depth 2 gave a header that was refused for its password, and depth 6 was
\* then attempted on the same array
C27_Witness ==
    /\ pc = "loop"
    /\ Len(attempts) = 2
    /\ attempts[1].res = Raised(ValueError(MsgWrongPassword))
    /\ ~attempts[2].res.ok
    /\ arr = LoadRGB(image_path).val
    /\ raw = <<>>

\* C28: a call that fails after the image was read has made three attempts,
\* the last at depth 8, and reports the error of that attempt: no part of
\* an error of depth 2 or 6 that differs from it is in the message.  When
\* the loop ends without data an error is recorded, so the generic "Failed
\* to extract data" is never raised.
C28_DepthEightReported ==
    /\ (pc = "loop" /\ ~DepthLeft(ki) /\ raw = <<>>) => last_err # <<>>
    /\ pc = "raised" => PartsOf(RaisedMsg) \cap PartsOf(MsgExhausted) = {}
    /\ (pc = "raised" /\ attempts # <<>>) =>
           /\ Len(attempts) = 3
           /\ attempts[3].k = 8
           /\ PartsOf(attempts[3].res.exc.msg) \subseteq PartsOf(RaisedMsg)
           /\ \A i \in 1..2 :
                  attempts[i].res.exc.msg # attempts[3].res.exc.msg
                      => PartsOf(attempts[i].res.exc.msg) \cap PartsOf(RaisedMsg) = {}

\* a wrong password at depth 2 and a missing password at depth 6 would both
\* be hidden: here depth 2 refused the password and depth 8 failed otherwise
C28_Witness ==
    /\ pc = "raised"
    /\ Len(attempts) = 3
    /\ attempts[1].res = Raised(ValueError(MsgWrongPassword))
    /\ attempts[3].res # attempts[1].res
    /\ PartsOf(MsgWrongPassword) \cap PartsOf(RaisedMsg) = {}

(***************************************************************************)
(* Further properties of the direct calls.                                 *)
(***************************************************************************)
\* channel ch (0, 1, 2 for R, G, B) of pixel q (0-based, row-major) of an
\* image file that Pillow opens, after the conversion to RGB
PngSample(png_bytes, q, ch) ==
    IF png_bytes[5] = 2 THEN png_bytes[8 + 3 * q + ch] ELSE png_bytes[8 + q]

PngPixels(png_bytes) == png_bytes[6] * png_bytes[7]

\* b is buf without zero bytes at its end
StrippedOf(b, buf) ==
    /\ Len(b) <= Len(buf)
    /\ \A i \in 1..Len(buf) : IF i <= Len(b) THEN b[i] = buf[i] ELSE buf[i] = 0
    /\ b = <<>> \/ b[Len(b)] # 0

\* C22 as stated: the buffer that is stripped holds the pixel bytes in
\* channel-major order: the R bytes of all pixels, then the G bytes, then
\* the B bytes.
C22_ChannelMajor ==
    (Ran("binpng_bytes_to_video_data") /\ unit.res.ok) =>
        LET n == PngPixels(unit.arg.png_bytes)
        IN  StrippedOf(unit.res.val,
                       [i \in 1..(3 * n) |->
                           PngSample(unit.arg.png_bytes, (i - 1) % n, (i - 1) \div n)])

\* C22: the buffer that is stripped is one sequence of 3 bytes per pixel,
\* the pixels in row-major order and the R, G, B bytes of a pixel next to
\* each other (the channel varying fastest).
C22_PixelInterleaved ==
    (Ran("binpng_bytes_to_video_data") /\ unit.res.ok) =>
        LET n == PngPixels(unit.arg.png_bytes)
        IN  StrippedOf(unit.res.val,
                       [i \in 1..(3 * n) |->
                           PngSample(unit.arg.png_bytes, (i - 1) \div 3, (i - 1) % 3)])

\* an image whose only non-zero byte is the G of its first pixel gave two
\* bytes
C22_Witness ==
    /\ Ran("binpng_bytes_to_video_data")
    /\ unit.arg.png_bytes = PngBytes(2, 1, 2, <<0, 7, 0, 0, 0, 0>>)
    /\ unit.res = Returned(<<0, 7>>)

\* the recovered extension without the marker at its end
Unmarked(file_ext) ==
    IF EndsWith(file_ext, BinpngSuffix)
    THEN SubSeq(file_ext, 1, Len(file_ext) - Len(BinpngSuffix))
    ELSE file_ext

\* C30: generate_output_path makes the extension match the recovered one:
\* with no explicit output the path is <input-stem>_recovered.<ext>, inside
\* output_dir when one is given; with an explicit output that is not a
\* directory the path ends with "." and the recovered extension and keeps the
\* directory and the file stem of the path given.  The extension is compared
\* without regard to letter case, as line 292 compares it.
C30_ExtensionMatches ==
    (Ran("generate_output_path") /\ unit.res.ok) =>
        LET a == unit.arg
            ext == Unmarked(a.file_ext)
            p == unit.res.val
            name == PathStem(a.input_duck_path) \o RecoveredSuffix \o <<Dot>> \o ext
        IN  /\ (a.output_spec = <<>> /\ a.output_dir = <<>>) => p = name
            /\ (a.output_spec = <<>> /\ a.output_dir # <<>>) =>
                   p = a.output_dir \o <<Slash>> \o name
            /\ (a.output_spec # <<>> /\ a.output_spec \notin Directories) =>
                   /\ EndsWith(Lower(p), Lower(<<Dot>> \o ext))
                   /\ DirName(p) = DirName(a.output_spec)
                   /\ PathStem(p) = PathStem(a.output_spec)

(***************************************************************************)
(* Properties of wait_for_completion.                                      *)
(***************************************************************************)
StaysRunning(w) ==
    \A i \in 1..Len(w.script) : w.script[i] \in {CodeRunning, CodeQueuing}

\* C26: given a timeout (any value but None) and a task that stays running or
\* queuing, the call ends with TimeoutError; a status is returned only when
\* a poll gave code 0, and code 805 or an unknown code ends the call with an
\* exception.
C26_TimesOut ==
    /\ (wait.pc = "polling" /\ wait.timeout # <<>> /\ StaysRunning(wait))
           ~> (wait.pc = "raised" /\ wait.res[1].type = "TimeoutError")
    /\ [](wait.pc = "returned" =>
              wait.last = <<CodeDone>> /\ wait.res = <<CodeDone>>)
    /\ []((wait.last # <<>> /\ wait.last[1] \in {CodeFailed, CodeOther})
              => (wait.pc = "raised" /\ wait.res[1].type = "Exception"))

\* with a timeout that is neither None nor 0 the call does end with
\* TimeoutError when the task stays running or queuing
C26_PositiveTimesOut ==
    (wait.pc = "polling" /\ TimeoutGiven(wait.timeout) /\ StaysRunning(wait))
        ~> (wait.pc = "raised" /\ wait.res[1].type = "TimeoutError")

(***************************************************************************)
(* Properties of decode_duck_image.                                        *)
(***************************************************************************)
Done(p) == dec[p].pc = "done"

\* the payload that was embedded in an image
Embedded(path) ==
    CASE path = SmallPng -> <<65>>
      [] path = MarkedPng -> <<137, 80, 78, 71, 2, 1, 2, 0, 5, 0, 6, 0, 0>>
      [] path = MarkedBadPng -> <<66, 77>>
      [] OTHER -> <<>>

\* C21: for a payload whose recovered extension carries the marker, the
\* extension of the output path and the extension reported in the result are
\* the recovered extension with the marker stripped.
C21_MarkerStripped ==
    \A p \in Procs :
        (Done(p) /\ dec[p].result.success /\ IsBinpng(dec[p].file_ext[1])) =>
            LET ext == Unmarked(dec[p].file_ext[1])
            IN  /\ EndsWith(dec[p].result.output_path[1], <<Dot>> \o ext)
                /\ dec[p].result.file_type = <<ext>>

\* C23: a call that has ended has a result record in which error is set if
\* and only if success is false; on success output_path and file_type are set
\* and data_size is the byte count of the payload; on every failure
\* output_path and file_type are unset and data_size is 0.  (No step of a call
\* raises: every exception of a stage ends the call with such a record.)
C23_ResultRecord ==
    \A p \in Procs :
        LET r == dec[p].result
        IN  /\ ~Done(p) => r = NoResult
            /\ Done(p) =>
                  /\ (r.error # <<>>) <=> ~r.success
                  /\ r.success =>
                        /\ r.output_path # <<>> /\ r.file_type # <<>>
                        /\ r.data_size = Len(Embedded(dec[p].duck_path))
                        /\ r.data_size > 0
                  /\ ~r.success =>
                        r.output_path = <<>> /\ r.file_type = <<>> /\ r.data_size = 0

\* one call returned success with 13 bytes, the other failed in the save,
\* its output path already computed
C23_Witness ==
    /\ Done(1) /\ dec[1].result.success /\ dec[1].result.data_size = 13
    /\ Done(2) /\ ~dec[2].result.success /\ dec[2].output_path # <<>>
    /\ dec[2].result.error # <<>>

\* the paths a call reads and the paths it creates
Reads(c) == {c.duck_path} \cup (IF c.output = <<>> THEN {} ELSE {c.output})
Creates(c) ==
    (IF c.output = <<>> /\ c.output_dir # <<>> THEN Ancestors(c.output_dir)
     ELSE {})
    \cup (IF c.output_path # <<>> THEN Ancestors(c.output_path[1]) ELSE {})

\* no other call creates a path that call p reads or creates
Apart(p) ==
    \A q \in Procs \ {p} :
        Creates(dec[q]) \cap (Reads(dec[p]) \cup Creates(dec[p])) = {}

\* the result of the call of p when it runs alone
Alone(p) ==
    decode_duck_image(dec[p].duck_path, dec[p].password, dec[p].output,
                      dec[p].output_dir, NoFiles, Directories)

IsInOut(e) == e \in {"open_input", "out_open", "out_write"}
InOut(p) == SelectSeq(dec[p].io, IsInOut)
WholeIO == <<"open_input", "open_input", "out_open", "out_write">>
Count(io, e) == Cardinality({i \in 1..Len(io) : io[i] = e})

\* C25 as stated: a call reads the input image once and writes the output
\* once, and a call that failed made no operation after the failing one.
C25_OneReadOneWrite ==
    \A p \in Procs :
        /\ Count(dec[p].io, "open_input") <= 1
        /\ Count(dec[p].io, "out_write") <= 1
        /\ (Done(p) /\ ~dec[p].result.success) => Count(dec[p].io, "out_write") = 0

\* C25: a call opens the input image at most twice, once to validate it and
\* once to extract from it, and then opens and writes the output at most once;
\* nothing is retried, and a call in which one of these failed stops there:
\* its operations are a beginning of open, open, open for writing, write,
\* and they are all four exactly when the call succeeded.
C25_TwoOpensOneWrite ==
    \A p \in Procs :
        /\ \E n \in 0..Len(WholeIO) : InOut(p) = SubSeq(WholeIO, 1, n)
        /\ Done(p) => (dec[p].result.success <=> InOut(p) = WholeIO)
        /\ (Done(p) /\ dec[p].duck_path = NotImagePng) => InOut(p) = <<"open_input">>
        /\ (Done(p) /\ dec[p].duck_path = TruncatedPng) =>
               InOut(p) = <<"open_input", "open_input">>

\* one call ended at the failed read of its extraction, the other succeeded
C25_Witness ==
    /\ Done(1) /\ dec[1].duck_path = TruncatedPng
    /\ InOut(1) = <<"open_input", "open_input">>
    /\ Done(2) /\ dec[2].result.success /\ InOut(2) = WholeIO

\* C29: the output file is created or overwritten only after one depth's
\* pipeline has succeeded and the output path has been computed: every file
\* written is the output of a call that succeeded; a call that failed in
\* validation or extraction, and a call whose conversion of a marked payload
\* failed, never opened its output for writing.
C29_WriteAfterSuccess ==
    /\ \A path \in DOMAIN disk :
          \E p \in Procs : /\ Done(p) /\ dec[p].result.success
                           /\ dec[p].output_path = <<path>>
    /\ \A p \in Procs :
          /\ Count(dec[p].io, "out_open") > 0 =>
                 dec[p].raw_data # <<>> /\ dec[p].output_path # <<>>
          /\ (Done(p) /\ dec[p].raw_data = <<>>) =>
                 Count(dec[p].io, "out_open") = 0
          /\ (Done(p) /\ dec[p].duck_path = MarkedBadPng) =>
                 /\ ~dec[p].result.success
                 /\ Count(dec[p].io, "out_open") = 0

\* one call failed in the conversion, after the temporary file was read; the
\* other wrote its output
C29_Witness ==
    /\ Done(1) /\ dec[1].duck_path = MarkedBadPng
    /\ Count(dec[1].io, "tmp_open") = 1
    /\ Done(2) /\ dec[2].result.success
    /\ dec[2].output_path[1] \in DOMAIN disk

====
